---- MODULE Spec2Model ----
(***************************************************************************)
(* Model of the AutoLink plugin (src/src/main.ts) and its suggestion       *)
(* popup (src/unnamed/part_000): the title/alias index, the match          *)
(* resolver, the change evaluation, the edit appliers and the undo ledger. *)
(* A string is a sequence of one-character strings; offsets are 0-based as *)
(* in the source and converted where a sequence is indexed.  The document  *)
(* has two lines: line is the text of the line the cursor is on            *)
(* (cursorLine) and otherLine the text of the other one.  The clock is     *)
(* kept relative to the present: Date.now() is the origin, a timestamp is  *)
(* minus the time passed since, a timer is the time left until it fires.   *)
(***************************************************************************)
EXTENDS Integers, Sequences, FiniteSets, TLC

VARIABLES settings, vault, activeFile, noteTitles, aliases,
          line, ch, cursorLine, otherLine, undoStack, pendingMatches, popup,
          containers, isAutoLinkDisabled, timers, toType, last

vars == <<settings, vault, activeFile, noteTitles, aliases,
          line, ch, cursorLine, otherLine, undoStack, pendingMatches, popup,
          containers, isAutoLinkDisabled, timers, toType, last>>

(***************************************************************************)
(* Bounds of the model.                                                    *)
(***************************************************************************)
MaxKeys == 2

(***************************************************************************)
(* Characters and the character classes of the regular expressions.        *)
(***************************************************************************)
UpperLetters == <<"A","B","C","D","E","F","G","H","I","J","K","L","M",
                  "N","O","P","Q","R","S","T","U","V","W","X","Y","Z">>

LowerLetters == <<"a","b","c","d","e","f","g","h","i","j","k","l","m",
                  "n","o","p","q","r","s","t","u","v","w","x","y","z">>

Digits == {"0","1","2","3","4","5","6","7","8","9"}

Range(f) == {f[i] : i \in DOMAIN f}

Min(a, b) == IF a < b THEN a ELSE b

Max(a, b) == IF a > b THEN a ELSE b

\* \s of the regular expressions and the characters trim() strips
Whitespace == {" ", "\t"}

\* \w of the regular expressions
WordChars == Range(UpperLetters) \cup Range(LowerLetters) \cup Digits \cup {"_"}

\* the class [\w\s\-_] of the fragment expression
FragmentChars == WordChars \cup Whitespace \cup {"-"}

\* the class of the isWordCompleting expression
DelimiterChars ==
  Whitespace \cup
  {".", ",", "!", "?", ";", ":", "(", ")", "[", "]", "{", "}", "|", "\\",
   "/", "<", ">", "@", "#", "$", "%", "^", "&", "*", "+", "=", "~", "`",
   "\"", "'", "-"}

ToLowerChar(c) ==
  IF \E i \in 1..26 : UpperLetters[i] = c
  THEN LowerLetters[CHOOSE i \in 1..26 : UpperLetters[i] = c]
  ELSE c

toLowerCase(s) == [i \in 1..Len(s) |-> ToLowerChar(s[i])]

\* s.slice(from, to), both offsets 0-based and non-negative
slice(s, from, to) == SubSeq(s, from + 1, Min(to, Len(s)))

\* s.slice(from)
sliceFrom(s, from) == SubSeq(s, from + 1, Len(s))

startsWith(s, p) == Len(p) <= Len(s) /\ SubSeq(s, 1, Len(p)) = p

endsWith(s, p) ==
  Len(p) <= Len(s) /\ SubSeq(s, Len(s) - Len(p) + 1, Len(s)) = p

\* s.lastIndexOf(p), 0-based, -1 when p does not occur
lastIndexOf(s, p) ==
  LET occ == {i \in 0..(Len(s) - Len(p)) : SubSeq(s, i + 1, i + Len(p)) = p}
  IN IF occ = {} THEN -1 ELSE CHOOSE i \in occ : \A j \in occ : j <= i

\* s.includes(p)
includes(s, p) == lastIndexOf(s, p) # -1

\* s.trim()
trim(s) ==
  LET keep == {i \in 1..Len(s) : s[i] \notin Whitespace}
  IN IF keep = {} THEN <<>>
     ELSE SubSeq(s, CHOOSE i \in keep : \A j \in keep : i <= j,
                    CHOOSE i \in keep : \A j \in keep : j <= i)

\* s.match(/[\w\s\-_]+$/): the longest suffix of fragment characters;
\* the empty sequence stands for the null of a failed match
fragmentMatch(s) ==
  LET bad == {i \in 1..Len(s) : s[i] \notin FragmentChars}
  IN IF bad = {} THEN s
     ELSE sliceFrom(s, CHOOSE i \in bad : \A j \in bad : j <= i)

\* (s.match(/cc/g) || []).length: non-overlapping occurrences, left to right
RECURSIVE countPairsFrom(_, _, _)
countPairsFrom(s, c, i) ==
  IF i >= Len(s) THEN 0
  ELSE IF s[i] = c /\ s[i + 1] = c THEN 1 + countPairsFrom(s, c, i + 2)
       ELSE countPairsFrom(s, c, i + 1)

countPairs(s, c) == countPairsFrom(s, c, 1)

(***************************************************************************)
(* Text constants.                                                         *)
(***************************************************************************)
Str_Note == <<"N","o","t","e">>

Str_NoteWithSpace ==
  <<"N","o","t","e"," ","w","i","t","h"," ","S","p","a","c","e">>

Str_Daily == <<"D","a","i","l","y">>

Str_DeepWork == <<"D","e","e","p"," ","W","o","r","k">>

Str_Focus == <<"F","o","c","u","s">>

Str_ProjectPlan == <<"P","r","o","j","e","c","t"," ","P","l","a","n">>

Str_Open == <<"[","[">>

Str_Close == <<"]","]">>

(***************************************************************************)
(* Documents of the vault.  A file has the path of its parent folder (a    *)
(* sequence of folder names, empty for the root), a basename and the       *)
(* alias list of its frontmatter.  Files are compared by identity, which   *)
(* is record equality here because paths are unique in a vault.            *)
(***************************************************************************)
NoFile == [none |-> TRUE]

File_Daily == [folder |-> <<>>, basename |-> Str_Daily, aliases |-> <<>>]

File_Note == [folder |-> <<>>, basename |-> Str_Note, aliases |-> <<>>]

File_NoteWithSpace ==
  [folder |-> <<>>, basename |-> Str_NoteWithSpace, aliases |-> <<>>]

File_DeepWork ==
  [folder |-> <<>>, basename |-> Str_DeepWork, aliases |-> <<Str_Focus>>]

File_ProjectPlan ==
  [folder |-> <<>>, basename |-> Str_ProjectPlan, aliases |-> <<>>]

(***************************************************************************)
(* Settings.                                                               *)
(***************************************************************************)
DEFAULT_SETTINGS ==
  [mode |-> "autonomous", minWordLength |-> 3, caseSensitive |-> FALSE,
   includeAliases |-> TRUE, customFolders |-> <<>>, debounceMs |-> 300,
   maxSuggestions |-> 10, customAllowEnterAccept |-> TRUE,
   customAutoInsertSingleMatch |-> TRUE]

(***************************************************************************)
(* Title index: two insertion-ordered maps, each a sequence of entries     *)
(* with distinct keys.                                                     *)
(***************************************************************************)
\* Map.prototype.set: an existing key keeps its place and gets the new value
mapSet(m, k, v) ==
  IF \E i \in 1..Len(m) : m[i].key = k
  THEN [i \in 1..Len(m) |-> IF m[i].key = k THEN [key |-> k, file |-> v]
                            ELSE m[i]]
  ELSE Append(m, [key |-> k, file |-> v])

\* file.path.startsWith(folder === "/" ? "" : folder + "/"), on folder names
inCustomFolder(s, file) ==
  \E i \in 1..Len(s.customFolders) :
     LET folder == s.customFolders[i]
     IN folder = "/" \/ (folder # "/" /\ startsWith(file.folder, folder))

getRelevantFiles(s, allFiles, active) ==
  IF s.mode = "semiAutonomous"
  THEN IF active = NoFile THEN allFiles
       ELSE SelectSeq(allFiles, LAMBDA f : f.folder = active.folder)
  ELSE IF s.mode = "custom" /\ Len(s.customFolders) > 0
       THEN SelectSeq(allFiles, LAMBDA f : inCustomFolder(s, f))
       ELSE allFiles

\* the key under which a title or alias is stored
indexKey(s, text) == IF s.caseSensitive THEN text ELSE toLowerCase(text)

RECURSIVE buildTitles(_, _, _)
buildTitles(s, files, m) ==
  IF files = <<>> THEN m
  ELSE buildTitles(s, Tail(files),
                   mapSet(m, indexKey(s, Head(files).basename), Head(files)))

RECURSIVE addAliases(_, _, _, _)
addAliases(s, file, als, m) ==
  IF als = <<>> THEN m
  ELSE addAliases(s, file, Tail(als),
                  IF trim(Head(als)) # <<>>
                  THEN mapSet(m, indexKey(s, Head(als)), file)
                  ELSE m)

RECURSIVE buildAliases(_, _, _)
buildAliases(s, files, m) ==
  IF files = <<>> THEN m
  ELSE buildAliases(s, Tail(files),
                    IF s.includeAliases
                    THEN addAliases(s, Head(files), Head(files).aliases, m)
                    ELSE m)

\* updateNoteList: both maps are cleared and rebuilt from the relevant files
updateNoteList(s, allFiles, active) ==
  LET files == getRelevantFiles(s, allFiles, active)
  IN [noteTitles |-> buildTitles(s, files, <<>>),
      aliases |-> buildAliases(s, files, <<>>)]

(***************************************************************************)
(* Link-syntax detector.                                                   *)
(***************************************************************************)
isInsideLink(l, c) ==
  LET beforeCursor == slice(l, 0, c)
      afterCursor == sliceFrom(l, c)
      openBrackets == countPairs(beforeCursor, "[")
      closeBrackets == countPairs(beforeCursor, "]")
      lastOpenBracket == lastIndexOf(beforeCursor, <<"[">>)
      lastCloseBracket == lastIndexOf(beforeCursor, <<"]">>)
  IN \/ openBrackets > closeBrackets
     \/ lastOpenBracket > lastCloseBracket /\ includes(afterCursor, <<"]", "(">>)

(***************************************************************************)
(* Match resolver.                                                         *)
(***************************************************************************)
\* a faulty variant: the typed text is never folded
searchKeyOf_Verbatim(s, typed) == typed

searchKeyOf(s, typed) == IF s.caseSensitive THEN typed ELSE toLowerCase(typed)

\* the first loop of findMatches: the title entries, in index order
RECURSIVE titleMatches(_, _, _, _)
titleMatches(s, titles, searchKey, currentBasename) ==
  IF titles = <<>> THEN <<>>
  ELSE LET ent == Head(titles)
           rest == titleMatches(s, Tail(titles), searchKey, currentBasename)
       IN IF /\ ent.key # (IF s.caseSensitive THEN currentBasename
                           ELSE toLowerCase(currentBasename))
             /\ startsWith(ent.key, searchKey)
          THEN <<[title |-> ent.file.basename, file |-> ent.file,
                  isAlias |-> FALSE]>> \o rest
          ELSE rest

\* a faulty variant: an alias is added although its document is present
RECURSIVE aliasMatches_WithDuplicates(_, _, _, _)
aliasMatches_WithDuplicates(als, searchKey, currentBasename, matches) ==
  IF als = <<>> THEN matches
  ELSE LET ent == Head(als)
       IN aliasMatches_WithDuplicates(Tail(als), searchKey, currentBasename,
            IF /\ ent.file.basename # currentBasename
               /\ startsWith(ent.key, searchKey)
            THEN Append(matches, [title |-> ent.key, file |-> ent.file,
                                  isAlias |-> TRUE])
            ELSE matches)

\* the second loop of findMatches: the alias entries, appended to matches
RECURSIVE aliasMatches(_, _, _, _)
aliasMatches(als, searchKey, currentBasename, matches) ==
  IF als = <<>> THEN matches
  ELSE LET ent == Head(als)
       IN aliasMatches(Tail(als), searchKey, currentBasename,
            IF /\ ent.file.basename # currentBasename
               /\ startsWith(ent.key, searchKey)
               /\ ~ \E i \in 1..Len(matches) : matches[i].file = ent.file
            THEN Append(matches, [title |-> ent.key, file |-> ent.file,
                                  isAlias |-> TRUE])
            ELSE matches)

\* the matches array of findMatches before it is truncated
allMatches(s, titles, als, typed, currentBasename) ==
  aliasMatches(als, searchKeyOf(s, typed), currentBasename,
               titleMatches(s, titles, searchKeyOf(s, typed), currentBasename))

\* a faulty variant: the matches are not cut to maxSuggestions
findMatches_NoLimit(typed, currentBasename) ==
  allMatches(settings, noteTitles, aliases, typed, currentBasename)

findMatches(typed, currentBasename) ==
  LET matches == allMatches(settings, noteTitles, aliases, typed,
                            currentBasename)
  IN slice(matches, 0, settings.maxSuggestions)

(***************************************************************************)
(* The engine state an operation works on: the document and the cursor,    *)
(* the undo ledger, the pending-matches cache and the popup, with three    *)
(* observations of the operation: the findMatches calls it made, whether   *)
(* it called editor.setLine and whether it pushed an undo record.          *)
(***************************************************************************)
NoPopup == [open |-> FALSE]

MaxUndo == 10

\* Date.now(), the origin of the clock
DateNow == 0

engine ==
  [line |-> line, ch |-> ch, cursorLine |-> cursorLine,
   otherLine |-> otherLine, undoStack |-> undoStack,
   pendingMatches |-> pendingMatches, popup |-> popup,
   containers |-> containers, calls |-> <<>>, setLine |-> FALSE,
   pushed |-> FALSE, mountFailed |-> FALSE]

\* editor.setCursor: the host editor keeps the column inside the line
setCursor(l, c) == Max(0, Min(c, Len(l)))

\* a faulty variant: the container element stays in the document
closePopup_KeepsContainer(e) == [e EXCEPT !.popup = NoPopup]

\* unmount(this.popup), and the element with the container's id, if there
\* is one, is taken out of the document
closePopup(e) ==
  [e EXCEPT !.popup = NoPopup, !.containers = Max(0, @ - 1)]

\* pendingMatches.set(typed, matches)
pendingSet(pm, typed, matches) ==
  {p \in pm : p.key # typed} \cup {[key |-> typed, matches |-> matches]}

\* the link text built from a candidate
linkOf(match) ==
  Str_Open \o match.file.basename
    \o (IF match.isAlias THEN <<"|">> \o match.title ELSE <<>>)
    \o Str_Close

\* a faulty variant: the ledger is never cut
pushUndo_Unbounded(stack, e, match) ==
  Append(stack, [line |-> e.cursorLine, original |-> e.line,
                 cursor |-> [line |-> e.cursorLine, ch |-> e.ch],
                 timestamp |-> DateNow,
                 linkText |-> match.file.basename])

\* a faulty variant: on overflow the newest of the old records is dropped
pushUndo_EvictsNewest(stack, e, match) ==
  LET record == [line |-> e.cursorLine, original |-> e.line,
                 cursor |-> [line |-> e.cursorLine, ch |-> e.ch],
                 timestamp |-> DateNow,
                 linkText |-> match.file.basename]
  IN IF Len(stack) >= MaxUndo
     THEN Append(SubSeq(stack, 1, Len(stack) - 1), record)
     ELSE Append(stack, record)

\* undoStack.push(record) followed by the bound of the ledger
pushUndo(stack, e, match) ==
  LET pushed == Append(stack, [line |-> e.cursorLine, original |-> e.line,
                               cursor |-> [line |-> e.cursorLine, ch |-> e.ch],
                               timestamp |-> DateNow,
                               linkText |-> match.file.basename])
  IN IF Len(pushed) > MaxUndo THEN Tail(pushed) ELSE pushed

\* the start offset of the completed word in the line
wordStartOf(l, completedWord, delimiterPos) ==
  Max(0, Len(slice(l, 0, delimiterPos)) - Len(completedWord))

\* a faulty variant: the delimiter is replaced together with the word
insertLinkForCompletedWord_DropsDelimiter(e, completedWord, match, delimiterPos) ==
  LET link == linkOf(match)
      wordStart == wordStartOf(e.line, completedWord, delimiterPos)
      newLine == slice(e.line, 0, wordStart) \o link
                   \o sliceFrom(e.line, delimiterPos + 1)
      newCursorPos == wordStart + Len(link) + 1
  IN [e EXCEPT !.undoStack = pushUndo(@, e, match),
               !.line = newLine,
               !.ch = setCursor(newLine, Min(Len(newLine), newCursorPos)),
               !.setLine = TRUE, !.pushed = TRUE]

insertLinkForCompletedWord(e, completedWord, match, delimiterPos) ==
  LET link == linkOf(match)
      wordStart == wordStartOf(e.line, completedWord, delimiterPos)
      newLine == slice(e.line, 0, wordStart) \o link
                   \o sliceFrom(e.line, delimiterPos)
      newCursorPos == wordStart + Len(link) + 1
  IN [e EXCEPT !.undoStack = pushUndo(@, e, match),
               !.line = newLine,
               !.ch = setCursor(newLine, Min(Len(newLine), newCursorPos)),
               !.setLine = TRUE, !.pushed = TRUE]

\* line.replace(new RegExp(escapeRegex(typed) + "$"), link)
replaceAtEnd(l, typed, link) ==
  IF endsWith(l, typed) THEN slice(l, 0, Len(l) - Len(typed)) \o link ELSE l

handleAutonomousMode(e, typed, matches, cursor) ==
  closePopup(
    IF Len(matches) = 1
    THEN LET match == matches[1]
             link == linkOf(match)
             newLine == replaceAtEnd(e.line, typed, link)
         IN [e EXCEPT !.undoStack = pushUndo(@, e, match),
                      !.line = newLine,
                      !.ch = setCursor(newLine, cursor - Len(typed) + Len(link)),
                      !.setLine = TRUE, !.pushed = TRUE]
    ELSE e)

\* handleKeydown of the popup, ArrowDown: the next candidate, cyclically
arrowDown(selected, n) == (selected + 1) % n

\* a faulty variant: ArrowUp stops at the first candidate
arrowUp_NoWrap(selected, n) == Max(0, selected - 1)

\* handleKeydown of the popup, ArrowUp: the candidate before, cyclically
arrowUp(selected, n) == (selected - 1 + n) % n

\* a faulty variant: the session being shown is not closed first
showSuggestionPopup_KeepsPrevious(e, matches, typed, mountOk) ==
  LET appended == [e EXCEPT !.containers = @ + 1]
  IN IF mountOk
     THEN [appended EXCEPT !.popup =
             [open |-> TRUE, matches |-> matches, typed |-> typed,
              selected |-> 0,
              allowEnterAccept |->
                (settings.mode = "suggestions"
                 \/ (settings.mode = "custom"
                     /\ settings.customAllowEnterAccept))]]
     ELSE [appended EXCEPT !.containers = @ - 1, !.mountFailed = TRUE]

\* a faulty variant: the container of a failed mount is left behind
showSuggestionPopup_LeavesContainer(e, matches, typed, mountOk) ==
  LET closed == closePopup(e)
      appended == [closed EXCEPT !.containers = @ + 1]
  IN IF mountOk
     THEN [appended EXCEPT !.popup =
             [open |-> TRUE, matches |-> matches, typed |-> typed,
              selected |-> 0,
              allowEnterAccept |->
                (settings.mode = "suggestions"
                 \/ (settings.mode = "custom"
                     /\ settings.customAllowEnterAccept))]]
     ELSE [appended EXCEPT !.mountFailed = TRUE]

\* mounting the popup component may fail; mountOk is the outcome
showSuggestionPopup(e, matches, typed, mountOk) ==
  LET closed == closePopup(e)
      appended == [closed EXCEPT !.containers = @ + 1]
  IN IF mountOk
     THEN [appended EXCEPT !.popup =
             [open |-> TRUE, matches |-> matches, typed |-> typed,
              selected |-> 0,
              allowEnterAccept |->
                (settings.mode = "suggestions"
                 \/ (settings.mode = "custom"
                     /\ settings.customAllowEnterAccept))]]
     ELSE [appended EXCEPT !.containers = @ - 1, !.mountFailed = TRUE]

\* a faulty variant: a single candidate is not shown
handleSuggestionsMode_OnlyIfAmbiguous(e, matches, typed, mountOk) ==
  IF Len(matches) > 1 THEN showSuggestionPopup(e, matches, typed, mountOk)
  ELSE closePopup(e)

handleSuggestionsMode(e, matches, typed, mountOk) ==
  IF Len(matches) > 0 THEN showSuggestionPopup(e, matches, typed, mountOk)
  ELSE closePopup(e)

acceptSuggestion(e, match, typed) ==
  LET link == linkOf(match)
      beforeCursor == slice(e.line, 0, e.ch)
      typedStartIndex == lastIndexOf(beforeCursor, typed)
      newLine == IF typedStartIndex = -1
                 THEN replaceAtEnd(e.line, typed, link)
                 ELSE slice(e.line, 0, typedStartIndex) \o link
                        \o sliceFrom(e.line, typedStartIndex + Len(typed))
      newCh == IF typedStartIndex = -1
               THEN Min(Len(newLine), e.ch - Len(typed) + Len(link))
               ELSE Min(Len(newLine), typedStartIndex + Len(link))
  IN closePopup([e EXCEPT !.undoStack = pushUndo(@, e, match),
                          !.line = newLine,
                          !.ch = setCursor(newLine, newCh),
                          !.setLine = TRUE, !.pushed = TRUE])

\* a faulty variant: the text is restored and the cursor left where it is
undoLastAutolink_KeepsCursor(e) ==
  IF Len(e.undoStack) = 0 THEN e
  ELSE LET lastAction == e.undoStack[Len(e.undoStack)]
       IN [e EXCEPT !.undoStack = SubSeq(@, 1, Len(@) - 1),
                    !.line = IF lastAction.line = e.cursorLine
                             THEN lastAction.original ELSE e.line,
                    !.otherLine = IF lastAction.line = e.cursorLine
                                  THEN e.otherLine ELSE lastAction.original,
                    !.ch = setCursor(IF lastAction.line = e.cursorLine
                                     THEN lastAction.original ELSE e.line,
                                     e.ch),
                    !.setLine = TRUE]

\* a faulty variant: the oldest record is taken instead of the newest
undoLastAutolink_TakesOldest(e) ==
  IF Len(e.undoStack) = 0 THEN e
  ELSE LET lastAction == e.undoStack[1]
       IN [e EXCEPT !.undoStack = Tail(@),
                    !.line = lastAction.original,
                    !.otherLine = IF lastAction.line = e.cursorLine
                                  THEN e.otherLine ELSE e.line,
                    !.cursorLine = lastAction.cursor.line,
                    !.ch = setCursor(lastAction.original, lastAction.cursor.ch),
                    !.setLine = TRUE]

\* editor.setLine(lastAction.line, original), then
\* editor.setCursor(lastAction.cursor), which brings the cursor to that line
undoLastAutolink(e) ==
  IF Len(e.undoStack) = 0 THEN e
  ELSE LET lastAction == e.undoStack[Len(e.undoStack)]
       IN [e EXCEPT !.undoStack = SubSeq(@, 1, Len(@) - 1),
                    !.line = lastAction.original,
                    !.otherLine = IF lastAction.line = e.cursorLine
                                  THEN e.otherLine ELSE e.line,
                    !.cursorLine = lastAction.cursor.line,
                    !.ch = setCursor(lastAction.original, lastAction.cursor.ch),
                    !.setLine = TRUE]

\* the findMatches call of an evaluation, observed in e.calls
called(e, typed, result) ==
  [e EXCEPT !.calls = Append(@, [typed |-> typed, result |-> result])]

\* the character class test of isWordCompleting on line[cursor.ch - 1]
isWordCompleting(l, c) ==
  c > 0 /\ c <= Len(l) /\ l[c] \in DelimiterChars

\* a faulty variant: autonomous modes show the candidates when there are
\* several
modeDispatch_ShowsWhenAmbiguous(e, matches, typed, mountOk) ==
  CASE settings.mode \in {"autonomous", "semiAutonomous"} ->
         IF Len(matches) > 1
         THEN handleSuggestionsMode(e, matches, typed, mountOk)
         ELSE closePopup(e)
    [] settings.mode = "suggestions" ->
         handleSuggestionsMode(e, matches, typed, mountOk)
    [] settings.mode = "custom" ->
         IF Len(matches) = 1 /\ settings.customAutoInsertSingleMatch
         THEN handleAutonomousMode(e, typed, matches, e.ch)
         ELSE IF Len(matches) > 0
              THEN handleSuggestionsMode(e, matches, typed, mountOk)
              ELSE closePopup(e)

\* the mode dispatch at the end of handleEditorChange
modeDispatch(e, matches, typed, mountOk) ==
  CASE settings.mode \in {"autonomous", "semiAutonomous"} -> closePopup(e)
    [] settings.mode = "suggestions" ->
         handleSuggestionsMode(e, matches, typed, mountOk)
    [] settings.mode = "custom" ->
         IF Len(matches) = 1 /\ settings.customAutoInsertSingleMatch
         THEN handleAutonomousMode(e, typed, matches, e.ch)
         ELSE IF Len(matches) > 0
              THEN handleSuggestionsMode(e, matches, typed, mountOk)
              ELSE closePopup(e)

\* a faulty variant: the completed word is linked only after an ambiguous
\* prefix was seen for it
completionBranch_OnlyAfterWaiting(e, currentBasename) ==
  LET beforeDelimiter == slice(e.line, 0, e.ch - 1)
      wordMatch == fragmentMatch(beforeDelimiter)
      completedWord == trim(wordMatch)
      completedMatches == findMatches(completedWord, currentBasename)
      e1 == called(e, completedWord, completedMatches)
      wasWaiting ==
        \E p \in e.pendingMatches :
           p.key = completedWord /\ Len(p.matches) > 1
  IN IF wordMatch = <<>> THEN [insert |-> FALSE, e |-> e]
     ELSE IF Len(completedMatches) = 1
             /\ wasWaiting
          THEN [insert |-> TRUE,
                e |-> [insertLinkForCompletedWord(e1, completedWord,
                          completedMatches[1], e.ch - 1)
                       EXCEPT !.pendingMatches = {}]]
          ELSE [insert |-> FALSE, e |-> e1]

\* the completion branch: the engine state after an insertion, or the
\* state with insert = FALSE when the branch falls through to the dispatch
completionBranch(e, currentBasename) ==
  LET beforeDelimiter == slice(e.line, 0, e.ch - 1)
      wordMatch == fragmentMatch(beforeDelimiter)
      completedWord == trim(wordMatch)
      completedMatches == findMatches(completedWord, currentBasename)
      e1 == called(e, completedWord, completedMatches)
      wasWaiting ==
        \E p \in e.pendingMatches :
           p.key = completedWord /\ Len(p.matches) > 1
  IN IF wordMatch = <<>> THEN [insert |-> FALSE, e |-> e]
     ELSE IF Len(completedMatches) = 1
             /\ (wasWaiting \/ Len(completedMatches) = 1)
          THEN [insert |-> TRUE,
                e |-> [insertLinkForCompletedWord(e1, completedWord,
                          completedMatches[1], e.ch - 1)
                       EXCEPT !.pendingMatches = {}]]
          ELSE [insert |-> FALSE, e |-> e1]

\* a faulty variant: the evaluation runs whatever the suppression flag
handleEditorChange_IgnoresFlag(e, mountOk) ==
  IF isInsideLink(e.line, e.ch) THEN e
  ELSE
    LET beforeCursor == slice(e.line, 0, e.ch)
        match == fragmentMatch(beforeCursor)
        typed == trim(match)
        currentBasename ==
          IF activeFile = NoFile THEN <<>> ELSE activeFile.basename
        matches == findMatches(typed, currentBasename)
        e1 == [called(e, typed, matches)
               EXCEPT !.pendingMatches = pendingSet(@, typed, matches)]
        completing ==
          settings.mode \in {"autonomous", "semiAutonomous"}
          /\ isWordCompleting(e.line, e.ch)
        branch == completionBranch(e1, currentBasename)
    IN IF match = <<>>
       THEN [closePopup(e) EXCEPT !.pendingMatches = {}]
       ELSE IF Len(typed) < settings.minWordLength
       THEN [closePopup(e) EXCEPT !.pendingMatches = {}]
       ELSE IF completing /\ branch.insert THEN branch.e
       ELSE modeDispatch(IF completing THEN branch.e ELSE e1,
                         matches, typed, mountOk)

handleEditorChange(e, mountOk) ==
  IF isAutoLinkDisabled THEN e
  ELSE IF isInsideLink(e.line, e.ch) THEN e
  ELSE
    LET beforeCursor == slice(e.line, 0, e.ch)
        match == fragmentMatch(beforeCursor)
        typed == trim(match)
        currentBasename ==
          IF activeFile = NoFile THEN <<>> ELSE activeFile.basename
        matches == findMatches(typed, currentBasename)
        e1 == [called(e, typed, matches)
               EXCEPT !.pendingMatches = pendingSet(@, typed, matches)]
        completing ==
          settings.mode \in {"autonomous", "semiAutonomous"}
          /\ isWordCompleting(e.line, e.ch)
        branch == completionBranch(e1, currentBasename)
    IN IF match = <<>>
       THEN [closePopup(e) EXCEPT !.pendingMatches = {}]
       ELSE IF Len(typed) < settings.minWordLength
       THEN [closePopup(e) EXCEPT !.pendingMatches = {}]
       ELSE IF completing /\ branch.insert THEN branch.e
       ELSE modeDispatch(IF completing THEN branch.e ELSE e1,
                         matches, typed, mountOk)

(***************************************************************************)
(* Timers.  timers holds the pending timeouts in the order they were       *)
(* started: the debounce timer of the change handler and the cool-down     *)
(* timer of temporarilyDisableAutoLink.                                    *)
(***************************************************************************)
\* the delay of the cool-down timer, in ms
CoolDown == 1000

\* the time limit of the Backspace/Delete undo, in ms
timeLimit == 30000

timer(name, left) == [name |-> name, left |-> left]

pendingTimer(ts, name) == \E i \in DOMAIN ts : ts[i].name = name

clearTimeout(ts, name) == SelectSeq(ts, LAMBDA t : t.name # name)

\* a change event calls the debounced handler: the timer is started unless
\* one is already running
debounced(ts) ==
  IF pendingTimer(ts, "debounce") THEN ts
  ELSE Append(ts, timer("debounce", settings.debounceMs))

\* a faulty variant: a running cool-down timer is not cancelled
temporarilyDisableAutoLink_KeepsOldTimer(ts) == Append(ts, timer("disable", CoolDown))

temporarilyDisableAutoLink(ts) ==
  Append(clearTimeout(ts, "disable"), timer("disable", CoolDown))

\* the timeout that fires next: the least time left, and of two timeouts due
\* at the same instant the one started first
nextTimer(ts) ==
  CHOOSE i \in DOMAIN ts :
    \A j \in DOMAIN ts :
       ts[i].left < ts[j].left \/ (ts[i].left = ts[j].left /\ i <= j)

\* the timeouts left when timeout i has fired after its time left has passed
afterTimer(ts, i) ==
  LET rest == SubSeq(ts, 1, i - 1) \o SubSeq(ts, i + 1, Len(ts))
  IN [j \in DOMAIN rest |-> [rest[j] EXCEPT !.left = @ - ts[i].left]]

\* the ledger when d ms have passed; a record older than the time limit
\* stays just beyond it
elapsed(stack, d) ==
  [i \in DOMAIN stack |->
     [stack[i] EXCEPT !.timestamp = Max(@ - d, DateNow - (timeLimit + 1))]]

evalPending == pendingTimer(timers, "debounce")

(***************************************************************************)
(* The keydown handler of Backspace and Delete.                            *)
(***************************************************************************)
NoMatch == [index |-> -1]

\* the length of the longest run of characters outside stop from offset from
RECURSIVE runLength(_, _, _)
runLength(l, from, stop) ==
  IF from >= Len(l) \/ l[from + 1] \in stop THEN 0
  ELSE 1 + runLength(l, from + 1, stop)

\* the match of /\[\[([^|\]]+)(?:\|[^\]]+)?\]\]/ that starts at offset i
linkAt(l, i) ==
  LET baseLen == runLength(l, i + 2, {"|", "]"})
      afterBase == i + 2 + baseLen
      labelLen == runLength(l, afterBase + 1, {"]"})
      hasLabel == slice(l, afterBase, afterBase + 1) = <<"|">> /\ labelLen > 0
      closeAt == IF hasLabel THEN afterBase + 1 + labelLen ELSE afterBase
  IN IF /\ slice(l, i, i + 2) = Str_Open
        /\ baseLen > 0
        /\ slice(l, closeAt, closeAt + 2) = Str_Close
     THEN [index |-> i, length |-> closeAt + 2 - i,
           baseText |-> slice(l, i + 2, afterBase)]
     ELSE NoMatch

\* the successive matches of linkRegex.exec(currentLine)
RECURSIVE linkScan(_, _)
linkScan(l, from) ==
  IF from >= Len(l) THEN <<>>
  ELSE IF linkAt(l, from) = NoMatch THEN linkScan(l, from + 1)
  ELSE <<linkAt(l, from)>> \o linkScan(l, from + linkAt(l, from).length)

isBackspaceNearLink(key, c, m) ==
  key = "Backspace" /\ c > m.index /\ c <= m.index + m.length

isDeleteNearLink(key, c, m) ==
  key = "Delete" /\ c >= m.index /\ c < m.index + m.length

\* a faulty variant: the age of the record is not looked at
keydownUndoes_NoTimeLimit(e, key) ==
  /\ key \in {"Backspace", "Delete"}
  /\ Len(e.undoStack) > 0
  /\ LET lastUndo == e.undoStack[Len(e.undoStack)]
         links == linkScan(e.line, 0)
     IN /\ e.cursorLine = lastUndo.line
        /\ \E i \in DOMAIN links :
              /\ links[i].baseText = lastUndo.linkText
              /\ \/ isBackspaceNearLink(key, e.ch, links[i])
                 \/ isDeleteNearLink(key, e.ch, links[i])

\* a faulty variant: the time limit is twice as long
keydownUndoes_LimitDoubled(e, key) ==
  /\ key \in {"Backspace", "Delete"}
  /\ Len(e.undoStack) > 0
  /\ LET lastUndo == e.undoStack[Len(e.undoStack)]
         links == linkScan(e.line, 0)
         timeSinceAutoLink == DateNow - lastUndo.timestamp
     IN /\ e.cursorLine = lastUndo.line
        /\ \E i \in DOMAIN links :
              /\ links[i].baseText = lastUndo.linkText
              /\ \/ isBackspaceNearLink(key, e.ch, links[i])
                 \/ isDeleteNearLink(key, e.ch, links[i])
        /\ timeSinceAutoLink <= 2 * timeLimit

\* the first link of the line with the record's target and the cursor near
\* it decides; every record carries a timestamp
keydownUndoes(e, key) ==
  /\ key \in {"Backspace", "Delete"}
  /\ Len(e.undoStack) > 0
  /\ LET lastUndo == e.undoStack[Len(e.undoStack)]
         links == linkScan(e.line, 0)
         timeSinceAutoLink == DateNow - lastUndo.timestamp
     IN /\ e.cursorLine = lastUndo.line
        /\ \E i \in DOMAIN links :
              /\ links[i].baseText = lastUndo.linkText
              /\ \/ isBackspaceNearLink(key, e.ch, links[i])
                 \/ isDeleteNearLink(key, e.ch, links[i])
        /\ timeSinceAutoLink <= timeLimit

\* what the editor does with a Backspace or Delete that is not prevented
nativeKey(e, key) ==
  IF key = "Backspace"
  THEN IF e.ch > 0
       THEN [e EXCEPT !.line = slice(e.line, 0, e.ch - 1)
                                 \o sliceFrom(e.line, e.ch),
                      !.ch = e.ch - 1, !.setLine = TRUE]
       ELSE e
  ELSE IF e.ch < Len(e.line)
       THEN [e EXCEPT !.line = slice(e.line, 0, e.ch)
                                 \o sliceFrom(e.line, e.ch + 1),
                      !.setLine = TRUE]
       ELSE e

(***************************************************************************)
(* Inputs: the vault and the active document, the saved settings, the      *)
(* line the document holds when the plugin loads, and the keys the user    *)
(* is going to type.                                                       *)
(***************************************************************************)
Vault_Note == <<File_Daily, File_Note>>

Vault_Notes == <<File_Daily, File_Note, File_NoteWithSpace>>

Vault_Alias == <<File_Daily, File_DeepWork>>

Vault_Project == <<File_Daily, File_Note, File_ProjectPlan>>

\* a saved configuration with a vault and the document being edited
config(s, v, active) == [settings |-> s, vault |-> v, active |-> active]

ConfigChoices ==
  {config(DEFAULT_SETTINGS, Vault_Note, File_Daily),
   config(DEFAULT_SETTINGS, Vault_Notes, File_Daily),
   config(DEFAULT_SETTINGS, Vault_Alias, File_Daily),
   config(DEFAULT_SETTINGS, Vault_Project, File_Note),
   config([DEFAULT_SETTINGS EXCEPT !.maxSuggestions = 1],
          Vault_Notes, File_Daily),
   config([DEFAULT_SETTINGS EXCEPT !.caseSensitive = TRUE],
          Vault_Note, File_Daily),
   config([DEFAULT_SETTINGS EXCEPT !.caseSensitive = TRUE],
          Vault_Alias, File_Daily),
   config([DEFAULT_SETTINGS EXCEPT !.caseSensitive = TRUE],
          Vault_Project, File_Note),
   config([DEFAULT_SETTINGS EXCEPT !.minWordLength = 1],
          Vault_Note, File_Daily),
   config([DEFAULT_SETTINGS EXCEPT !.includeAliases = FALSE],
          Vault_Alias, File_Daily),
   config([DEFAULT_SETTINGS EXCEPT !.mode = "semiAutonomous"],
          Vault_Note, File_Daily),
   config([DEFAULT_SETTINGS EXCEPT !.mode = "suggestions"],
          Vault_Notes, File_Daily),
   config([DEFAULT_SETTINGS EXCEPT !.mode = "suggestions"],
          Vault_Alias, File_Daily),
   config([DEFAULT_SETTINGS EXCEPT !.mode = "custom"],
          Vault_Note, File_Daily),
   config([DEFAULT_SETTINGS EXCEPT !.mode = "custom"],
          Vault_Notes, File_Daily),
   config([DEFAULT_SETTINGS EXCEPT !.mode = "custom",
                                   !.customAutoInsertSingleMatch = FALSE],
          Vault_Note, File_Daily)}

Lines ==
  {<<>>, <<"N","o">>, <<"N","o","t">>, Str_Note, <<"n","o","t","e">>,
   <<"s","e","e"," ","N","o","t","e">>, <<"N","o","t","e"," ">>,
   Str_Focus, <<"p","r","o","j">>, <<"P","r","o","j">>}

DocChoices ==
  {[line |-> l, ch |-> Len(l)] : l \in Lines}
    \cup {[line |-> <<"N","o","t","e","x">>, ch |-> 4],
          [line |-> <<"(","N","o","t","e",")">>, ch |-> 5]}

DelimiterKeys == {" ", "-"}

ReadmeKeys == <<" ","h","a","s"," ","e","t","c">>

KeyChoices ==
  UNION {[1..n -> DelimiterKeys] : n \in 0..MaxKeys}
    \cup {<<".">>, <<"e">>, <<"e"," ">>}

SpecialKeys == {"Backspace", "Delete"}

CursorKeys == {"ArrowLeft", "Home", "ArrowDown", "ArrowUp"}

\* a session: a configuration, the lines found at load and the keys typed;
\* in custom mode, where one key can start an unbounded run of evaluations,
\* a single key is typed
Sessions ==
  {[config |-> c, doc |-> d, other |-> <<>>, keys |-> k] :
      c \in ConfigChoices, d \in DocChoices, k \in KeyChoices}

Scenarios ==
  {sc \in Sessions :
      sc.config.settings.mode = "custom" => Len(sc.keys) <= 1}
    \cup {[config |-> config(DEFAULT_SETTINGS, v, File_Daily),
           doc |-> [line |-> Str_Note, ch |-> 4], other |-> <<>>,
           keys |-> ReadmeKeys] :
             v \in {Vault_Note, Vault_Notes}}

InitOf(sc) ==
  /\ settings = sc.config.settings
  /\ vault = sc.config.vault
  /\ activeFile = sc.config.active
  /\ noteTitles =
       updateNoteList(sc.config.settings, sc.config.vault,
                      sc.config.active).noteTitles
  /\ aliases =
       updateNoteList(sc.config.settings, sc.config.vault,
                      sc.config.active).aliases
  /\ line = sc.doc.line
  /\ ch = sc.doc.ch
  /\ cursorLine = 0
  /\ otherLine = sc.other
  /\ undoStack = <<>>
  /\ pendingMatches = {}
  /\ popup = NoPopup
  /\ containers = 0
  /\ isAutoLinkDisabled = FALSE
  /\ timers = <<>>
  /\ toType = sc.keys
  /\ last = [op |-> "load", line |-> sc.doc.line, ch |-> sc.doc.ch,
             cursorLine |-> 0, undoLen |-> 0, undoStack |-> <<>>,
             disabled |-> FALSE, calls |-> <<>>, pushed |-> FALSE,
             key |-> "", prevented |-> FALSE, inside |-> FALSE,
             mountFailed |-> FALSE, failedBefore |-> FALSE,
             gap |-> sc.config.settings.debounceMs, evalSince |-> FALSE,
             twin |-> {}, same |-> TRUE, unloaded |-> FALSE,
             popup |-> NoPopup, containers |-> 0, pendingMatches |-> {},
             at |-> -1, history |-> <<>>, earlier |-> <<>>,
             change |-> "none", origin |-> "none",
             before |-> [line |-> sc.doc.line, ch |-> sc.doc.ch,
                         cursorLine |-> 0]]

Init == \E sc \in Scenarios : InitOf(sc)

\* the line, cursor and line number an engine insertion found in e0, put on
\* the insertions not yet undone h; the observer keeps as many as the ledger
inserted(h, e0) ==
  LET all == Append(h, [line |-> e0.line, ch |-> e0.ch,
                        cursorLine |-> e0.cursorLine])
  IN IF Len(all) > MaxUndo THEN Tail(all) ELSE all

\* an undo takes the latest insertion off the insertions not yet undone
undone(h) == IF h = <<>> THEN h ELSE SubSeq(h, 1, Len(h) - 1)

\* what an action records: the state e0 it started from, what operation op
\* did (result r, the kind of text change it made), the kind of the latest
\* text change before it, the line and cursor from before the latest
\* engine insertion, and the insertions not yet undone after it (history)
\* and before it (earlier)
observed(op, e0, r, change) ==
  [op |-> op, line |-> e0.line, ch |-> e0.ch, cursorLine |-> e0.cursorLine,
   undoLen |-> Len(e0.undoStack), undoStack |-> e0.undoStack,
   disabled |-> isAutoLinkDisabled, calls |-> r.calls, pushed |-> r.pushed,
   key |-> "", prevented |-> FALSE,
   inside |-> isInsideLink(e0.line, e0.ch),
   mountFailed |-> r.mountFailed,
   failedBefore |-> (last.mountFailed \/ last.failedBefore),
   gap |-> IF change # "none" THEN 0 ELSE last.gap,
   evalSince |-> IF change # "none" THEN FALSE
                 ELSE (last.evalSince \/ op = "handleEditorChange"),
   twin |-> {}, same |-> TRUE,
   unloaded |-> (last.unloaded \/ op = "unload"),
   popup |-> e0.popup, containers |-> e0.containers,
   pendingMatches |-> e0.pendingMatches, at |-> -1,
   history |-> IF r.pushed THEN inserted(last.history, e0)
               ELSE IF change = "undo" THEN undone(last.history)
               ELSE last.history,
   earlier |-> last.history,
   change |-> change,
   origin |-> IF last.change # "none" THEN last.change ELSE last.origin,
   before |-> IF last.pushed
              THEN [line |-> last.line, ch |-> last.ch,
                    cursorLine |-> last.cursorLine]
              ELSE last.before]

\* what an action records when d ms pass before it: gap is the time since
\* the latest editor-change event, counted up to the debounce delay
observedAfter(d, op, e0, r, change) ==
  [observed(op, e0, r, change)
     EXCEPT !.gap = IF change # "none" THEN 0
                    ELSE Min(settings.debounceMs, last.gap + d)]

\* the engine state an operation returns becomes the next state
becomes(e) ==
  /\ line' = e.line
  /\ ch' = e.ch
  /\ cursorLine' = e.cursorLine
  /\ otherLine' = e.otherLine
  /\ undoStack' = e.undoStack
  /\ pendingMatches' = e.pendingMatches
  /\ popup' = e.popup
  /\ containers' = e.containers

(***************************************************************************)
(* Actions.  A user action happens right after the event before it; time   *)
(* passes when a timeout fires and when the user pauses (Elapse).          *)
(***************************************************************************)
\* the user types the next key at the cursor: an editor-change event
TypeChar ==
  /\ toType # <<>>
  /\ Head(toType) \notin SpecialKeys \cup CursorKeys
  /\ line' = slice(line, 0, ch) \o <<Head(toType)>> \o sliceFrom(line, ch)
  /\ ch' = ch + 1
  /\ toType' = Tail(toType)
  /\ timers' = debounced(timers)
  /\ last' = observed("type", engine, engine, "user")
  /\ UNCHANGED <<settings, vault, activeFile, noteTitles, aliases, cursorLine,
                 otherLine, undoStack, pendingMatches, popup, containers,
                 isAutoLinkDisabled>>

\* the debounce timer fires and handleEditorChange runs; a setLine of the
\* evaluation is itself an editor-change event
EditorChangeDebounced ==
  /\ timers # <<>>
  /\ timers[nextTimer(timers)].name = "debounce"
  /\ \E mountOk \in BOOLEAN :
        LET i == nextTimer(timers)
            e0 == [engine EXCEPT !.undoStack = elapsed(@, timers[i].left)]
            r == handleEditorChange(e0, mountOk)
        IN /\ becomes(r)
           /\ timers' = IF r.setLine THEN debounced(afterTimer(timers, i))
                        ELSE afterTimer(timers, i)
           /\ last' = observedAfter(timers[i].left, "handleEditorChange",
                                    e0, r,
                                    IF r.pushed THEN "engine" ELSE "none")
  /\ UNCHANGED <<settings, vault, activeFile, noteTitles, aliases,
                 isAutoLinkDisabled, toType>>

\* the undo-autolink command
UndoCommand ==
  /\ IF Len(undoStack) > 0
     THEN /\ isAutoLinkDisabled' = TRUE
          /\ becomes(undoLastAutolink(engine))
          /\ timers' = debounced(temporarilyDisableAutoLink(timers))
     ELSE UNCHANGED <<line, ch, cursorLine, otherLine, undoStack,
                      pendingMatches, popup, containers, isAutoLinkDisabled, timers>>
  /\ last' = observed("undoCommand", engine, engine,
                      IF Len(undoStack) > 0 THEN "undo" ELSE "none")
  /\ UNCHANGED <<settings, vault, activeFile, noteTitles, aliases, toType>>

\* the timer of temporarilyDisableAutoLink fires
ReenableAutoLink ==
  /\ timers # <<>>
  /\ timers[nextTimer(timers)].name = "disable"
  /\ LET i == nextTimer(timers)
         e0 == [engine EXCEPT !.undoStack = elapsed(@, timers[i].left)]
     IN /\ isAutoLinkDisabled' = FALSE
        /\ timers' = afterTimer(timers, i)
        /\ undoStack' = e0.undoStack
        /\ last' = observedAfter(timers[i].left, "reenable", e0, e0,
                                 "none")
  /\ UNCHANGED <<settings, vault, activeFile, noteTitles, aliases, line, ch,
                 cursorLine, otherLine, pendingMatches, popup, containers, toType>>

\* a click on candidate index of the open popup: handleClick, accept, onAccept
PopupClick ==
  /\ popup.open
  /\ \E index \in 0..(Len(popup.matches) - 1) :
        LET r == acceptSuggestion(engine, popup.matches[index + 1],
                                  popup.typed)
        IN /\ becomes(r)
           /\ last' = observed("acceptSuggestion", engine, r, "engine")
  /\ timers' = debounced(timers)
  /\ UNCHANGED <<settings, vault, activeFile, noteTitles, aliases,
                 isAutoLinkDisabled, toType>>

\* Escape in the open popup: onClose
PopupEscape ==
  /\ popup.open
  /\ becomes(closePopup(engine))
  /\ last' = observed("closePopup", engine, engine, "none")
  /\ UNCHANGED <<settings, vault, activeFile, noteTitles, aliases,
                 isAutoLinkDisabled, timers, toType>>

\* the case-sensitivity toggle of the settings tab, which rebuilds the index
SetCaseSensitive ==
  /\ \E value \in BOOLEAN :
        /\ value # settings.caseSensitive
        /\ settings' = [settings EXCEPT !.caseSensitive = value]
  /\ noteTitles' = updateNoteList(settings', vault, activeFile).noteTitles
  /\ aliases' = updateNoteList(settings', vault, activeFile).aliases
  /\ last' = observed("setCaseSensitive", engine, engine, "none")
  /\ UNCHANGED <<vault, activeFile, line, ch, cursorLine, otherLine,
                 undoStack, pendingMatches, popup, containers, isAutoLinkDisabled,
                 timers, toType>>

\* the user presses Backspace or Delete: the keydown handler, and the
\* editor's own deletion unless the handler prevented it.  The key is not
\* pressed where it would join the two lines.
Keydown ==
  /\ toType # <<>>
  /\ Head(toType) \in SpecialKeys
  /\ ~(Head(toType) = "Backspace" /\ ch = 0 /\ cursorLine = 1)
  /\ ~(Head(toType) = "Delete" /\ ch = Len(line) /\ cursorLine = 0)
  /\ LET key == Head(toType)
         undoes == keydownUndoes(engine, key)
         r == IF undoes THEN undoLastAutolink(engine)
              ELSE nativeKey(engine, key)
     IN /\ becomes(r)
        /\ isAutoLinkDisabled' = (undoes \/ isAutoLinkDisabled)
        /\ timers' =
             IF undoes THEN debounced(temporarilyDisableAutoLink(timers))
             ELSE IF r.setLine THEN debounced(timers) ELSE timers
        /\ last' = [observed("keydown", engine, r,
                             IF undoes THEN "undo"
                             ELSE IF r.setLine THEN "user" ELSE "none")
                    EXCEPT !.key = key, !.prevented = undoes]
  /\ toType' = Tail(toType)
  /\ UNCHANGED <<settings, vault, activeFile, noteTitles, aliases>>

\* the user moves the cursor with a key the plugin does not handle: within
\* the line, or to the other line
MoveCursor ==
  /\ toType # <<>>
  /\ Head(toType) \in CursorKeys
  /\ ~(popup.open /\ Head(toType) \in {"ArrowDown", "ArrowUp"})
  /\ LET key == Head(toType)
         toOther == \/ key = "ArrowDown" /\ cursorLine = 0
                    \/ key = "ArrowUp" /\ cursorLine = 1
     IN IF toOther
        THEN /\ cursorLine' = 1 - cursorLine
             /\ line' = otherLine
             /\ otherLine' = line
             /\ ch' = Min(ch, Len(otherLine))
        ELSE /\ ch' = IF key = "ArrowLeft" THEN Max(0, ch - 1)
                      ELSE IF key = "Home" THEN 0 ELSE ch
             /\ UNCHANGED <<line, cursorLine, otherLine>>
  /\ toType' = Tail(toType)
  /\ last' = [observed("moveCursor", engine, engine, "none")
              EXCEPT !.key = Head(toType)]
  /\ UNCHANGED <<settings, vault, activeFile, noteTitles, aliases, undoStack,
                 pendingMatches, popup, containers, isAutoLinkDisabled, timers>>

\* the user pauses, with no timeout pending, until the newest record of the
\* ledger is as old as the time limit, or one ms older
Elapse ==
  /\ timers = <<>>
  /\ undoStack # <<>>
  /\ \E age \in {timeLimit, timeLimit + 1} :
        LET d == age - (DateNow - undoStack[Len(undoStack)].timestamp)
        IN d > 0 /\ undoStack' = elapsed(undoStack, d)
  /\ last' = observedAfter(timeLimit, "elapse", engine, engine, "none")
  /\ UNCHANGED <<settings, vault, activeFile, noteTitles, aliases, line, ch,
                 cursorLine, otherLine, pendingMatches, popup, containers,
                 isAutoLinkDisabled, timers, toType>>

Next ==
  \/ TypeChar
  \/ EditorChangeDebounced
  \/ UndoCommand
  \/ ReenableAutoLink
  \/ PopupClick
  \/ PopupEscape

Spec == Init /\ [][Next]_vars

\* the sessions in which the settings tab is used as well
SettingsScenarios ==
  {sc \in Scenarios :
     /\ sc.config.settings \in
          {DEFAULT_SETTINGS, [DEFAULT_SETTINGS EXCEPT !.mode = "suggestions"]}
     /\ Len(sc.keys) <= 1}

InitSettings == \E sc \in SettingsScenarios : InitOf(sc)

NextSettings == Next \/ SetCaseSensitive

SpecSettings == InitSettings /\ [][NextSettings]_vars

\* the sessions in which the user also presses Backspace and Delete, moves
\* the cursor and pauses; the other line holds a link of its own
Str_LinkedNote == <<"[","[","N","o","t","e","]","]">>

UndoConfigChoices ==
  {config(DEFAULT_SETTINGS, Vault_Note, File_Daily),
   config([DEFAULT_SETTINGS EXCEPT !.debounceMs = 50],
          Vault_Note, File_Daily),
   config([DEFAULT_SETTINGS EXCEPT !.debounceMs = 1000],
          Vault_Note, File_Daily),
   config([DEFAULT_SETTINGS EXCEPT !.mode = "suggestions"],
          Vault_Note, File_Daily)}

\* Backspace or Delete at once, or a space and then up to MaxKeys keys
UndoKeyChoices ==
  {<<k>> : k \in SpecialKeys}
    \cup {<<" ">> \o s :
            s \in UNION {[1..n -> SpecialKeys \cup CursorKeys] :
                            n \in 1..MaxKeys}}

UndoScenarios ==
  {[config |-> c, doc |-> [line |-> Str_Note, ch |-> 4],
    other |-> Str_LinkedNote, keys |-> k] :
      c \in UndoConfigChoices, k \in UndoKeyChoices}

InitUndo == \E sc \in UndoScenarios : InitOf(sc)

NextUndo == Next \/ Keydown \/ MoveCursor \/ Elapse

SpecUndo == InitUndo /\ [][NextUndo]_vars

\* the lines on which the link-syntax detector is tried: a link as the engine
\* writes it, with or without a label, or a link left open, between two
\* stretches of other text of up to MaxPad characters
MaxPad == 2

Str_N == <<"N">>

Str_a == <<"a">>

File_N == [folder |-> <<>>, basename |-> Str_N, aliases |-> <<Str_a>>]

PadChars == {"[", "]", "(", "x"}

Pads == UNION {[1..n -> PadChars] : n \in 0..MaxPad}

ProducedLinks ==
  {linkOf([title |-> Str_N, file |-> File_N, isAlias |-> FALSE]),
   linkOf([title |-> Str_a, file |-> File_N, isAlias |-> TRUE])}

DetectorLines ==
  {pre \o mid \o post :
      pre \in Pads, mid \in ProducedLinks \cup {Str_Open \o Str_N},
      post \in Pads}

DetectorScenarios ==
  {[config |-> config(DEFAULT_SETTINGS, <<File_Daily, File_N>>, File_Daily),
    doc |-> [line |-> l, ch |-> 0], other |-> <<>>, keys |-> <<>>] :
      l \in DetectorLines}

InitDetector == \E sc \in DetectorScenarios : InitOf(sc)

\* the cursor is put at a column of the line and isInsideLink is asked
Scan ==
  /\ \E c \in 0..Len(line) :
        LET e0 == [engine EXCEPT !.ch = c]
        IN /\ ch' = c
           /\ last' = observed("isInsideLink", e0, e0, "none")
  /\ UNCHANGED <<settings, vault, activeFile, noteTitles, aliases, line,
                 cursorLine, otherLine, undoStack, pendingMatches, popup, containers,
                 isAutoLinkDisabled, timers, toType>>

NextDetector == Scan

SpecDetector == InitDetector /\ [][NextDetector]_vars

\* the sessions of folder-scoped linking: documents in two folders, and the
\* user opens another document or creates one
Str_Journal == <<"J","o","u","r","n","a","l">>

File_Journal ==
  [folder |-> <<"Work">>, basename |-> Str_Journal, aliases |-> <<>>]

File_WorkPlan ==
  [folder |-> <<"Work">>, basename |-> Str_ProjectPlan, aliases |-> <<>>]

Vault_Folders == <<File_Daily, File_Note, File_Journal>>

FolderDocChoices == {[line |-> Str_Note, ch |-> 4], [line |-> <<>>, ch |-> 0]}

FolderScenarios ==
  {[config |-> config([DEFAULT_SETTINGS EXCEPT !.mode = "semiAutonomous"],
                      Vault_Folders, active),
    doc |-> d, other |-> <<>>, keys |-> k] :
      active \in {File_Daily, File_Journal}, d \in FolderDocChoices,
      k \in UNION {[1..n -> DelimiterKeys] : n \in 0..MaxKeys}}

InitFolders == \E sc \in FolderScenarios : InitOf(sc)

\* the user opens another document of the vault while no evaluation is
\* pending: the workspace has a new active file and the editor shows its
\* text; the plugin listens to no workspace event
OpenFile ==
  /\ ~evalPending
  /\ \E f \in Range(vault) \ {activeFile} : \E d \in FolderDocChoices :
        /\ activeFile' = f
        /\ line' = d.line
        /\ ch' = d.ch
  /\ cursorLine' = 0
  /\ otherLine' = <<>>
  /\ last' = observed("openFile", engine, engine, "user")
  /\ UNCHANGED <<settings, vault, noteTitles, aliases, undoStack,
                 pendingMatches, popup, containers, isAutoLinkDisabled, timers, toType>>

\* vault.on("create"): a markdown file is created and updateNoteList runs
CreateFile ==
  /\ File_WorkPlan \notin Range(vault)
  /\ vault' = Append(vault, File_WorkPlan)
  /\ noteTitles' =
       updateNoteList(settings, Append(vault, File_WorkPlan),
                      activeFile).noteTitles
  /\ aliases' =
       updateNoteList(settings, Append(vault, File_WorkPlan),
                      activeFile).aliases
  /\ last' = observed("createFile", engine, engine, "none")
  /\ UNCHANGED <<settings, activeFile, line, ch, cursorLine, otherLine,
                 undoStack, pendingMatches, popup, containers, isAutoLinkDisabled,
                 timers, toType>>

\* no session is ever opened in semiAutonomous mode, so the session's
\* actions are left out
NextFolders ==
  \/ TypeChar
  \/ EditorChangeDebounced
  \/ UndoCommand
  \/ ReenableAutoLink
  \/ OpenFile
  \/ CreateFile

SpecFolders == InitFolders /\ [][NextFolders]_vars

\* the queries put to the match resolver alone: a vault in every order of
\* its files, with titles and aliases that share a prefix, a current
\* document with such an alias, and up to MaxShown suggestions
MaxShown == 3

Str_Log == <<"L","o","g">>

Str_Notable == <<"N","o","t","a","b","l","e">>

Str_Notes == <<"N","o","t","e","s">>

Str_notions == <<"n","o","t","i","o","n","s">>

Str_Notice == <<"N","o","t","i","c","e">>

File_Log == [folder |-> <<>>, basename |-> Str_Log, aliases |-> <<Str_Notice>>]

File_NoteAliased ==
  [folder |-> <<>>, basename |-> Str_Note, aliases |-> <<Str_Notable>>]

File_Ideas ==
  [folder |-> <<>>, basename |-> <<"I","d","e","a","s">>,
   aliases |-> <<Str_Notes, Str_notions>>]

File_Plan ==
  [folder |-> <<>>, basename |-> <<"P","l","a","n">>,
   aliases |-> <<<<"N","o","v","a">>>>]

MatchFiles ==
  {File_Log, File_NoteAliased, File_NoteWithSpace, File_Ideas, File_Plan}

MatchVaults ==
  {v \in [1..Cardinality(MatchFiles) -> MatchFiles] :
      \A i, j \in DOMAIN v : i # j => v[i] # v[j]}

MatchSettings ==
  {[DEFAULT_SETTINGS EXCEPT !.maxSuggestions = n, !.caseSensitive = cs,
                            !.includeAliases = al] :
      n \in 1..MaxShown, cs \in BOOLEAN, al \in BOOLEAN}

TypedChoices ==
  {<<"N","o">>, <<"n","o">>, <<"N","o","t","e">>, <<"n","o","t","i">>,
   <<"L","o">>, <<"x">>}

MatchScenarios ==
  {[config |-> config(s, v, File_Log), doc |-> [line |-> <<>>, ch |-> 0],
    other |-> <<>>, keys |-> <<>>] :
      s \in MatchSettings, v \in MatchVaults}

InitMatches == \E sc \in MatchScenarios : InitOf(sc)

\* findMatches is called with a typed text and the basename of the current
\* document
FindMatches ==
  /\ \E typed \in TypedChoices :
        last' = observed("findMatches", engine,
                         called(engine, typed,
                                findMatches(typed, activeFile.basename)),
                         "none")
  /\ UNCHANGED <<settings, vault, activeFile, noteTitles, aliases, line, ch,
                 cursorLine, otherLine, undoStack, pendingMatches, popup, containers,
                 isAutoLinkDisabled, timers, toType>>

NextMatches == FindMatches

SpecMatches == InitMatches /\ [][NextMatches]_vars

\* the sessions in which the mode is changed in the settings tab
ModeChoices == {"autonomous", "semiAutonomous", "suggestions"}

ModeScenarios ==
  {[config |-> config([DEFAULT_SETTINGS EXCEPT !.mode = m], v, File_Daily),
    doc |-> d, other |-> <<>>, keys |-> k] :
      m \in {"autonomous", "suggestions"}, v \in {Vault_Note, Vault_Notes},
      d \in DocChoices, k \in {<<" ">>, <<"e">>, <<"e", " ">>}}

InitModes == \E sc \in ModeScenarios : InitOf(sc)

\* the mode dropdown of the settings tab: the mode is saved and the index
\* rebuilt; an open popup is not touched
SetMode ==
  /\ \E value \in ModeChoices :
        /\ value # settings.mode
        /\ settings' = [settings EXCEPT !.mode = value]
  /\ noteTitles' = updateNoteList(settings', vault, activeFile).noteTitles
  /\ aliases' = updateNoteList(settings', vault, activeFile).aliases
  /\ last' = observed("setMode", engine, engine, "none")
  /\ UNCHANGED <<vault, activeFile, line, ch, cursorLine, otherLine,
                 undoStack, pendingMatches, popup, containers,
                 isAutoLinkDisabled, timers, toType>>

NextModes == Next \/ SetMode

SpecModes == InitModes /\ [][NextModes]_vars

\* the sessions in which the popup is used with keys and pointer: one, two
\* or three candidates are shown
Vault_Three == <<File_Daily, File_Note, File_NoteWithSpace, File_Ideas>>

PopupScenarios ==
  {[config |-> config([DEFAULT_SETTINGS EXCEPT !.mode = "suggestions"],
                      v, File_Daily),
    doc |-> [line |-> <<"N","o","t">>, ch |-> 3], other |-> <<>>,
    keys |-> k] :
      v \in {Vault_Note, Vault_Notes, Vault_Three},
      k \in {<<"e">>, <<" ">>, <<"e", " ">>, <<"e", "[", "[">>, <<"x">>}}

InitPopup == \E sc \in PopupScenarios : InitOf(sc)

\* ArrowDown or ArrowUp pressed in the editor while the popup is mounted
PopupArrow ==
  /\ popup.open
  /\ \E key \in {"ArrowDown", "ArrowUp"} :
        /\ popup' =
             [popup EXCEPT !.selected =
                IF key = "ArrowDown" THEN arrowDown(@, Len(popup.matches))
                ELSE arrowUp(@, Len(popup.matches))]
        /\ last' = [observed("popupArrow", engine, engine, "none")
                    EXCEPT !.key = key]
  /\ UNCHANGED <<settings, vault, activeFile, noteTitles, aliases, line, ch,
                 cursorLine, otherLine, undoStack, pendingMatches, containers,
                 isAutoLinkDisabled, timers, toType>>

\* the pointer moves over candidate index: handleMouseOver
PopupHover ==
  /\ popup.open
  /\ \E index \in 0..(Len(popup.matches) - 1) :
        popup' = [popup EXCEPT !.selected = index]
  /\ last' = observed("popupHover", engine, engine, "none")
  /\ UNCHANGED <<settings, vault, activeFile, noteTitles, aliases, line, ch,
                 cursorLine, otherLine, undoStack, pendingMatches, containers,
                 isAutoLinkDisabled, timers, toType>>

\* a digit key 1..9 within the list: the candidate is selected and accepted
PopupDigit ==
  /\ popup.open
  /\ \E num \in 0..8 :
        /\ num < Len(popup.matches)
        /\ LET r == acceptSuggestion(engine, popup.matches[num + 1],
                                     popup.typed)
           IN /\ becomes(r)
              /\ last' = observed("acceptSuggestion", engine, r, "engine")
  /\ timers' = debounced(timers)
  /\ UNCHANGED <<settings, vault, activeFile, noteTitles, aliases,
                 isAutoLinkDisabled, toType>>

\* a click outside the popup: handleOutsideClick calls onClose.  The click
\* lands outside the text (at = -1) or in the line at column at, where the
\* editor puts the cursor.
PopupOutsideClick ==
  /\ popup.open
  /\ \E at \in (-1)..Len(line) :
        LET r == closePopup([engine EXCEPT !.ch = IF at = -1 THEN @ ELSE at])
        IN /\ becomes(r)
           /\ last' = [observed("outsideClick", engine, r, "none")
                       EXCEPT !.at = at]
  /\ UNCHANGED <<settings, vault, activeFile, noteTitles, aliases,
                 isAutoLinkDisabled, timers, toType>>

NextPopup ==
  \/ Next
  \/ PopupArrow
  \/ PopupHover
  \/ PopupDigit
  \/ PopupOutsideClick

SpecPopup == InitPopup /\ [][NextPopup]_vars

(***************************************************************************)
(* Bursts of change events: the user types with pauses shorter than the    *)
(* debounce delay.                                                         *)
(***************************************************************************)
\* the length of a pause between two keys
Pause == DEFAULT_SETTINGS.debounceMs \div 2

BurstKeys == {"e", "x", " "}

BurstScenarios ==
  {[config |-> config(DEFAULT_SETTINGS, Vault_Note, File_Daily),
    doc |-> d, other |-> <<>>, keys |-> k] :
      d \in {[line |-> <<"N","o","t">>, ch |-> 3],
             [line |-> Str_Note, ch |-> 4]},
      k \in UNION {[1..n -> BurstKeys] : n \in 1..(MaxKeys + 1)}}

InitDebounce == \E sc \in BurstScenarios : InitOf(sc)

\* the user pauses for less than the time left of every pending timeout
Wait ==
  /\ \A i \in DOMAIN timers : Pause < timers[i].left
  /\ timers # <<>> \/ last.gap < settings.debounceMs
  /\ timers' = [i \in DOMAIN timers |-> [timers[i] EXCEPT !.left = @ - Pause]]
  /\ undoStack' = elapsed(undoStack, Pause)
  /\ last' = observedAfter(Pause, "wait", engine, engine, "none")
  /\ UNCHANGED <<settings, vault, activeFile, noteTitles, aliases, line, ch,
                 cursorLine, otherLine, pendingMatches, popup, containers,
                 isAutoLinkDisabled, toType>>

NextDebounce == TypeChar \/ EditorChangeDebounced \/ Wait

SpecDebounce == InitDebounce /\ [][NextDebounce]_vars

(***************************************************************************)
(* Undo commands given during the cool-down of an earlier one: the ledger  *)
(* holds several records and the user pauses between the commands.         *)
(***************************************************************************)
CoolDownScenarios ==
  {[config |-> c, doc |-> [line |-> <<"N","o","t">>, ch |-> 3],
    other |-> <<>>, keys |-> k] :
      c \in {config(DEFAULT_SETTINGS, Vault_Note, File_Daily),
             config([DEFAULT_SETTINGS EXCEPT !.mode = "custom"],
                    Vault_Note, File_Daily)},
      k \in {<<" ">>, <<"e">>}}

InitCoolDown == \E sc \in CoolDownScenarios : InitOf(sc)

\* a pending timeout fires
TimerFires == EditorChangeDebounced \/ ReenableAutoLink

NextCoolDown == TypeChar \/ TimerFires \/ UndoCommand \/ Wait

SpecCoolDown == InitCoolDown /\ [][NextCoolDown]_vars

\* a timeout is pending
TimerDue == timers # <<>>

\* timeouts that are due do fire: weak fairness of TimerFires, which is
\* enabled exactly when a timeout is pending
TimersFire == []<>(~TimerDue) \/ []<><<TimerFires>>_vars

FairCoolDown == SpecCoolDown /\ TimersFire

(***************************************************************************)
(* The pending-matches cache: every evaluation is run a second time on the *)
(* same state with another cache, and the two outcomes are compared.       *)
(***************************************************************************)
CacheScenarios ==
  {[config |-> c, doc |-> d, other |-> <<>>, keys |-> k] :
      c \in {config(DEFAULT_SETTINGS, Vault_Note, File_Daily),
             config(DEFAULT_SETTINGS, Vault_Notes, File_Daily),
             config([DEFAULT_SETTINGS EXCEPT !.mode = "suggestions"],
                    Vault_Notes, File_Daily),
             config([DEFAULT_SETTINGS EXCEPT !.mode = "custom"],
                    Vault_Note, File_Daily)},
      d \in DocChoices,
      k \in {<<" ">>, <<"e">>, <<"e", " ">>}}

InitCache ==
  \E sc \in CacheScenarios :
     /\ sc.config.settings.mode = "custom" => Len(sc.keys) <= 1
     /\ InitOf(sc)

\* the candidate lists a cache entry may hold: none, one or two candidates
CachedLists ==
  LET m == [title |-> Str_Note, file |-> File_Note, isAlias |-> FALSE]
  IN {<<>>, <<m>>, <<m, m>>}

\* the caches the second run is given: empty, or one entry for the fragment
\* or for the completed word of the line
OtherCaches(l, c) ==
  {{}} \cup
  {{[key |-> key, matches |-> ms]} :
      key \in {trim(fragmentMatch(slice(l, 0, c))),
               trim(fragmentMatch(slice(l, 0, c - 1)))},
      ms \in CachedLists}

\* what the claim compares: text, cursor, ledger and session
outcome(r) ==
  [line |-> r.line, otherLine |-> r.otherLine, ch |-> r.ch,
   cursorLine |-> r.cursorLine, undoStack |-> r.undoStack,
   popup |-> r.popup, containers |-> r.containers]

\* the debounce timer fires and handleEditorChange runs; the same call is
\* made on the state with another cache and the outcomes are compared
EditorChangeTwin ==
  /\ timers # <<>>
  /\ timers[nextTimer(timers)].name = "debounce"
  /\ \E mountOk \in BOOLEAN :
        LET i == nextTimer(timers)
            e0 == [engine EXCEPT !.undoStack = elapsed(@, timers[i].left)]
            r == handleEditorChange(e0, mountOk)
        IN /\ becomes(r)
           /\ timers' = IF r.setLine THEN debounced(afterTimer(timers, i))
                        ELSE afterTimer(timers, i)
           /\ \E pm \in OtherCaches(e0.line, e0.ch) :
                 LET r2 == handleEditorChange(
                             [e0 EXCEPT !.pendingMatches = pm], mountOk)
                 IN last' = [observedAfter(timers[i].left,
                                           "handleEditorChange", e0, r,
                                           IF r.pushed THEN "engine"
                                           ELSE "none")
                               EXCEPT !.twin = pm,
                                      !.same = (outcome(r) = outcome(r2))]
  /\ UNCHANGED <<settings, vault, activeFile, noteTitles, aliases,
                 isAutoLinkDisabled, toType>>

NextCache == TypeChar \/ EditorChangeTwin

SpecCache == InitCache /\ [][NextCache]_vars

(***************************************************************************)
(* The life of a session, up to the unloading of the plugin.               *)
(***************************************************************************)
\* onunload: the popup is closed and the cool-down timer cleared.  The
\* registered events, the keydown listener and the command go with the
\* plugin; a timeout of the debounced handler that is pending still fires.
Unload ==
  /\ ~last.unloaded
  /\ becomes(closePopup(engine))
  /\ timers' = clearTimeout(timers, "disable")
  /\ last' = observed("unload", engine, engine, "none")
  /\ UNCHANGED <<settings, vault, activeFile, noteTitles, aliases,
                 isAutoLinkDisabled, toType>>

NextSession ==
  \/ ~last.unloaded /\ NextPopup
  \/ Unload
  \/ last.unloaded /\ EditorChangeDebounced

SpecSession == InitPopup /\ [][NextSession]_vars

(***************************************************************************)
(* Accepting a candidate: by key or pointer, also after the cursor was     *)
(* moved or a character deleted while the session was open.                *)
(***************************************************************************)
AcceptKeys == {"Enter", "Tab", "Ctrl+Space"}

CommitScenarios ==
  {[config |-> c, doc |-> [line |-> <<"N","o","t">>, ch |-> 3],
    other |-> <<>>, keys |-> k] :
      c \in {config([DEFAULT_SETTINGS EXCEPT !.mode = "suggestions"],
                    Vault_Notes, File_Daily),
             config([DEFAULT_SETTINGS EXCEPT
                       !.mode = "custom",
                       !.customAutoInsertSingleMatch = FALSE,
                       !.customAllowEnterAccept = FALSE],
                    Vault_Notes, File_Daily)},
      k \in {<<"e">>, <<"e", " ">>, <<"e", "Home">>, <<"e", "ArrowLeft">>,
             <<"e", "Backspace">>}}

InitCommit == \E sc \in CommitScenarios : InitOf(sc)

\* Enter (when the session allows it), Tab or Ctrl/Cmd+Space in the open
\* popup: accept() passes the selected candidate to onAccept
PopupKeyAccept ==
  /\ popup.open
  /\ \E key \in AcceptKeys :
        /\ key = "Enter" => popup.allowEnterAccept
        /\ LET r == acceptSuggestion(engine,
                                     popup.matches[popup.selected + 1],
                                     popup.typed)
           IN /\ becomes(r)
              /\ last' = [observed("acceptSuggestion", engine, r, "engine")
                          EXCEPT !.key = key]
  /\ timers' = debounced(timers)
  /\ UNCHANGED <<settings, vault, activeFile, noteTitles, aliases,
                 isAutoLinkDisabled, toType>>

NextCommit ==
  \/ NextPopup
  \/ PopupKeyAccept
  \/ Keydown
  \/ MoveCursor

SpecCommit == InitCommit /\ [][NextCommit]_vars

(***************************************************************************)
(* Several insertions, on the two lines of the document, and the undo      *)
(* command run as often as the user likes.                                 *)
(***************************************************************************)
LifoConfigChoices ==
  {config(DEFAULT_SETTINGS, Vault_Note, File_Daily),
   config([DEFAULT_SETTINGS EXCEPT !.debounceMs = 1000],
          Vault_Note, File_Daily),
   config([DEFAULT_SETTINGS EXCEPT !.mode = "suggestions"],
          Vault_Note, File_Daily),
   config([DEFAULT_SETTINGS EXCEPT !.mode = "custom"],
          Vault_Note, File_Daily)}

LifoScenarios ==
  {sc \in {[config |-> c, doc |-> [line |-> Str_Note, ch |-> 4],
            other |-> Str_Note, keys |-> k] :
              c \in LifoConfigChoices,
              k \in {<<" ">>, <<" ", "ArrowDown", " ">>}} :
     (sc.config.settings.mode = "custom"
        \/ sc.config.settings.debounceMs = 1000) => Len(sc.keys) = 1}

InitLifo == \E sc \in LifoScenarios : InitOf(sc)

NextLifo == Next \/ MoveCursor

SpecLifo == InitLifo /\ [][NextLifo]_vars

(***************************************************************************)
(* Vocabulary of the properties.  They are stated on the state an          *)
(* operation started from (last) and the state it produced.                *)
(***************************************************************************)
Evaluated == last.op = "handleEditorChange"

\* the operation recorded in last pushed an undo record
Pushed == last.pushed

AutoModes == {"autonomous", "semiAutonomous"}

\* the evaluation recorded in last ran with the flag clear and outside a link
Ran == Evaluated /\ ~isAutoLinkDisabled /\ ~isInsideLink(last.line, last.ch)

\* the character just before the cursor of the evaluated state
JustTyped == IF last.ch > 0 THEN <<last.line[last.ch]>> ELSE <<>>

\* the text before the just-typed character
BeforeDelimiter == slice(last.line, 0, last.ch - 1)

\* the completed word of the evaluated state, as the completion branch cuts it
CompletedWord == trim(fragmentMatch(BeforeDelimiter))

\* the fragment of the evaluated state
TypedFragment == trim(fragmentMatch(slice(last.line, 0, last.ch)))

\* the longest run of word characters that ends at offset c of l
lastWordOf(l, c) ==
  LET bad == {i \in 1..c : l[i] \notin WordChars}
  IN IF bad = {} THEN slice(l, 0, c)
     ELSE slice(l, CHOOSE i \in bad : \A j \in bad : j <= i, c)

\* text starts with word, modulo case folding unless caseSensitive
prefixMatches(text, word) ==
  IF settings.caseSensitive THEN startsWith(text, word)
  ELSE startsWith(toLowerCase(text), toLowerCase(word))

\* the entries of the title/alias index, other than those of the current
\* document, whose key starts with the search key of word
PrefixEntries(word) ==
  {<<"title", i>> : i \in {j \in 1..Len(noteTitles) :
       /\ noteTitles[j].file # activeFile
       /\ startsWith(noteTitles[j].key, searchKeyOf(settings, word))}}
  \cup
  {<<"alias", i>> : i \in {j \in 1..Len(aliases) :
       /\ aliases[j].file # activeFile
       /\ startsWith(aliases[j].key, searchKeyOf(settings, word))}}

\* the document the newest undo record links to
Target == CHOOSE f \in Range(vault) :
            f.basename = undoStack[Len(undoStack)].linkText

Str_NoteSpace == <<"N","o","t","e"," ">>

Str_LinkedNoteSpace == <<"[","[","N","o","t","e","]","]"," ">>

Str_NoteHasEtc == <<"N","o","t","e"," ","h","a","s"," ","e","t","c">>

Str_LinkedNoteHasEtc ==
  <<"[","[","N","o","t","e","]","]"," ","h","a","s"," ","e","t","c">>

(***************************************************************************)
(* C1..C10                                                                 *)
(***************************************************************************)
\* C1: in autonomous and semiAutonomous mode an evaluation inserts a link at
\* a completion boundary only if exactly one index entry, the current
\* document's aside, prefix-matches the completed word; for every allowed
\* maxSuggestions.
C1_InsertOnlyWhenUnique ==
  (/\ Evaluated
   /\ settings.mode \in AutoModes
   /\ Pushed
   /\ Len(CompletedWord) >= settings.minWordLength)
    => Cardinality(PrefixEntries(CompletedWord)) = 1

\* C2: autonomous mode, default settings, Note the only prefix-matching
\* entry: the evaluation of `Note ` with the cursor after the space yields
\* `[[Note]] ` with the cursor after the space.
C2_Case ==
  /\ Ran
  /\ settings = DEFAULT_SETTINGS
  /\ last.line = Str_NoteSpace
  /\ last.ch = 5
  /\ \E i \in 1..Len(noteTitles) :
        /\ noteTitles[i].file.basename = Str_Note
        /\ PrefixEntries(Str_Note) = {<<"title", i>>}

C2_NoteSpaceLinked ==
  C2_Case => (line = Str_LinkedNoteSpace /\ ch = 9)

C2_Witness == C2_Case /\ line = Str_LinkedNoteSpace /\ ch = 9

\* C3: README, smart disambiguation: with notes Note and Note with Space in
\* autonomous mode, once the user has typed `Note has etc` and the
\* evaluation of that line has run, the line reads `[[Note]] has etc`.
C3_ReadmeDisambiguation ==
  (/\ Ran
   /\ settings = DEFAULT_SETTINGS
   /\ vault = Vault_Notes
   /\ last.line = Str_NoteHasEtc
   /\ last.ch = Len(Str_NoteHasEtc)
   /\ toType = <<>>
   /\ ~evalPending)
    => line = Str_LinkedNoteHasEtc

\* C4: autonomous mode: when whitespace is typed after a word that matches
\* exactly one note title, that word is replaced by the link, whatever
\* precedes the word on the line.
C4_LinksWordAfterOtherWords ==
  LET word == lastWordOf(last.line, last.ch - 1)
      start == last.ch - 1 - Len(word)
  IN (/\ Ran
      /\ settings.mode = "autonomous"
      /\ last.ch > 0
      /\ last.line[last.ch] \in Whitespace
      /\ Len(word) >= settings.minWordLength
      /\ \E i \in 1..Len(noteTitles) :
            /\ PrefixEntries(word) = {<<"title", i>>}
            /\ noteTitles[i].key = searchKeyOf(settings, word))
       => \E i \in 1..Len(noteTitles) :
            /\ PrefixEntries(word) = {<<"title", i>>}
            /\ line = slice(last.line, 0, start)
                        \o Str_Open \o noteTitles[i].file.basename \o Str_Close
                        \o sliceFrom(last.line, last.ch - 1)

\* C5: autonomous mode: a link is inserted only when the completed word is
\* a whole title or alias of the target modulo case folding, never for a
\* proper prefix of it.
C5_WholeTitleOnly ==
  (/\ Evaluated
   /\ settings.mode = "autonomous"
   /\ Pushed
   /\ Len(CompletedWord) >= settings.minWordLength)
    => \/ toLowerCase(CompletedWord) = toLowerCase(Target.basename)
       \/ \E i \in 1..Len(Target.aliases) :
             toLowerCase(CompletedWord) = toLowerCase(Target.aliases[i])

\* C6: autonomous mode: when the just-typed character is any delimiter,
\* whitespace or punctuation, and the word that ends before it has exactly
\* one candidate, the word is replaced by the link and the delimiter stays.
C6_AnyDelimiterCompletes ==
  LET word == CompletedWord
      start == last.ch - 1 - Len(word)
  IN (/\ Ran
      /\ settings.mode = "autonomous"
      /\ last.ch > 1
      /\ last.line[last.ch] \in DelimiterChars
      /\ last.line[last.ch - 1] \notin Whitespace
      /\ Len(word) >= settings.minWordLength
      /\ Cardinality(PrefixEntries(word)) = 1)
       => /\ Pushed
          /\ startsWith(line, slice(last.line, 0, start) \o Str_Open)
          /\ endsWith(line, Str_Close \o sliceFrom(last.line, last.ch - 1))

\* C7: findMatches is never called for a fragment shorter than
\* minWordLength, and no link is inserted for a completed word shorter than
\* minWordLength, whatever delimiter ends it.
C7_NoQueryBelowMinLength ==
  Evaluated =>
    /\ \A i \in 1..Len(last.calls) :
          Len(last.calls[i].typed) >= settings.minWordLength
    /\ (settings.mode \in AutoModes /\ Pushed)
          => Len(CompletedWord) >= settings.minWordLength

\* C8: a document other than the current one is a candidate of a
\* findMatches call iff its title or one of its aliases starts with the
\* typed text, both lower-cased when caseSensitive is off and both verbatim
\* when it is on (up to the cut at maxSuggestions).
C8_Expected(typed) ==
  {f \in Range(getRelevantFiles(settings, vault, activeFile)) :
     /\ f.basename # activeFile.basename
     /\ \/ prefixMatches(f.basename, typed)
        \/ /\ settings.includeAliases
           /\ \E i \in 1..Len(f.aliases) :
                 trim(f.aliases[i]) # <<>> /\ prefixMatches(f.aliases[i], typed)}

C8_CaseFoldedPrefix ==
  Evaluated =>
    \A i \in 1..Len(last.calls) :
       LET c == last.calls[i]
           got == {c.result[j].file : j \in 1..Len(c.result)}
       IN IF Cardinality(C8_Expected(c.typed)) <= settings.maxSuggestions
          THEN got = C8_Expected(c.typed)
          ELSE got \subseteq C8_Expected(c.typed)
               /\ Len(c.result) = settings.maxSuggestions

C8_Witness ==
  /\ Evaluated
  /\ ~settings.caseSensitive
  /\ \E i \in 1..Len(last.calls) :
        /\ last.calls[i].typed = <<"p","r","o","j">>
        /\ \E j \in 1..Len(last.calls[i].result) :
              last.calls[i].result[j].file = File_ProjectPlan

\* C9: an inserted link is `[[basename]]` for a title match and
\* `[[basename|alias]]` with the alias as declared in the document for an
\* alias match, with caseSensitive off as well as on.
C9_AliasLabelAsDeclared ==
  (last.op \in {"handleEditorChange", "acceptSuggestion"}
   /\ Pushed /\ line # last.line)
    => \/ includes(line, Str_Open \o Target.basename \o Str_Close)
       \/ \E i \in 1..Len(Target.aliases) :
             includes(line, Str_Open \o Target.basename \o <<"|">>
                              \o Target.aliases[i] \o Str_Close)

\* C10: every engine insertion replaces exactly the characters of the
\* matched fragment by the link: the text before the fragment and the text
\* from its end onward are unchanged, for any line content.
C10_ReplacesExactlyTheFragment ==
  (last.op \in {"handleEditorChange", "acceptSuggestion"} /\ Pushed)
    => \E start \in 0..Len(last.line) : \E end \in start..Len(last.line) :
          LET fragment == slice(last.line, start, end)
              before == slice(last.line, 0, start)
              after == sliceFrom(last.line, end)
          IN /\ fragment = trim(fragment)
             /\ \/ prefixMatches(Target.basename, fragment)
                \/ \E i \in 1..Len(Target.aliases) :
                      prefixMatches(Target.aliases[i], fragment)
             /\ Len(line) >= Len(before) + Len(after) + 4
             /\ startsWith(line, before \o Str_Open)
             /\ endsWith(line, Str_Close \o after)

(***************************************************************************)
(* C11..C20                                                                *)
(***************************************************************************)
\* the operation recorded in last is an engine insertion
Inserted ==
  last.op \in {"handleEditorChange", "acceptSuggestion"} /\ Pushed

\* a link to the target of the newest undo record ends at offset c of l
LinkEndsAt(l, c) ==
  \E i \in DOMAIN linkScan(l, 0) :
     /\ linkScan(l, 0)[i].baseText = undoStack[Len(undoStack)].linkText
     /\ linkScan(l, 0)[i].index + linkScan(l, 0)[i].length = c

\* C11: after every engine insertion the cursor column is the offset right
\* after the inserted link, after the kept delimiter for a completion
\* insert, and lies within the new line.
C11_CursorAfterLink ==
  Inserted =>
    /\ 0 <= ch /\ ch <= Len(line)
    /\ IF Evaluated /\ settings.mode \in AutoModes
       THEN LinkEndsAt(line, ch - 1)
       ELSE LinkEndsAt(line, ch)

\* the operation recorded in last is an undo that popped a record
Undone == last.change = "undo"

\* C12: engine actions interleaved with user edits never remove or alter
\* text other than the fragment a link replaces: an undo on the line it was
\* recorded for leaves that line as it was except for one link, which gives
\* way to the fragment.
C12_UndoKeepsOtherText ==
  (Undone /\ last.cursorLine = cursorLine) =>
    \/ line = last.line
    \/ \E i \in DOMAIN linkScan(last.line, 0) :
          LET m == linkScan(last.line, 0)[i]
              before == slice(last.line, 0, m.index)
              after == sliceFrom(last.line, m.index + m.length)
          IN /\ Len(line) >= Len(before) + Len(after)
             /\ startsWith(line, before)
             /\ endsWith(line, after)

\* C13: after every engine action the undo ledger holds at most 10 records,
\* for any number and mix of insertions and undos.
C13_LedgerAtMostTen == Len(undoStack) <= 10

\* an insertion was recorded while the ledger held 10 records
C13_Witness == Inserted /\ last.undoLen = 10 /\ Len(undoStack) = 10

\* C14: eviction is first-in first-out: an insertion appends its record, and
\* when the ledger already held 10 records exactly the oldest is dropped and
\* the others keep their order.
C14_EvictsOldestFirst ==
  Inserted =>
    /\ SubSeq(undoStack, 1, Len(undoStack) - 1) =
         (IF last.undoLen >= 10 THEN Tail(last.undoStack)
          ELSE last.undoStack)
    /\ undoStack[Len(undoStack)].original = last.line
    /\ undoStack[Len(undoStack)].cursor =
         [line |-> last.cursorLine, ch |-> last.ch]
    /\ undoStack[Len(undoStack)].timestamp = DateNow

\* an insertion on a full ledger of records that differ from one another
C14_Witness ==
  /\ Inserted
  /\ last.undoLen = 10
  /\ \A i, j \in 1..10 : i # j => last.undoStack[i] # last.undoStack[j]
  /\ undoStack[1] = last.undoStack[2]

\* C15: insert-then-undo is the identity: the undo command run after an
\* engine insertion, with no edit in between and whatever time has passed,
\* gives back the line and the cursor from before the insertion and shortens
\* the ledger by one record.
C15_InsertThenUndoIsIdentity ==
  (last.op = "undoCommand" /\ last.origin = "engine")
    => /\ line = last.before.line
       /\ ch = last.before.ch
       /\ cursorLine = last.before.cursorLine
       /\ Len(undoStack) = last.undoLen - 1

\* the undo command has just run on the state an insertion produced
\* and more than the time limit after it
C15_Witness ==
  /\ last.op = "undoCommand"
  /\ last.origin = "engine"
  /\ last.undoLen > 0
  /\ last.undoStack[last.undoLen].timestamp < DateNow - timeLimit
  /\ Len(undoStack) = last.undoLen - 1
  /\ line # last.line

\* the newest record of the ledger the operation recorded in last started from
LastUndo == last.undoStack[last.undoLen]

\* l holds, from offset start to offset end, a link `[[target]]` or
\* `[[target|label]]`
IsLinkTo(l, start, end, target) ==
  LET open == start + 2 + Len(target)
  IN /\ slice(l, start, open) = Str_Open \o target
     /\ end - 2 >= open
     /\ slice(l, end - 2, end) = Str_Close
     /\ \/ end - 2 = open
        \/ /\ l[open + 1] = "|"
           /\ end - 2 > open + 1
           /\ \A i \in (open + 2)..(end - 2) : l[i] # "]"

\* C16: a Backspace or Delete keydown pops the ledger and restores text
\* only if the ledger is not empty, the cursor is on the line of the newest
\* record, that line holds a link to the record's target with the cursor
\* within its span (Backspace: start < ch <= end; Delete: start <= ch < end)
\* and at most 30000 ms have passed since the record's timestamp; in every
\* other case the ledger and the flag are unchanged and the key is left to
\* the editor.
C16_KeydownUndoOnlyWhen ==
  last.op = "keydown" =>
    /\ last.prevented =>
         /\ last.undoLen > 0
         /\ last.cursorLine = LastUndo.line
         /\ \E start \in 0..Len(last.line) : \E end \in start..Len(last.line) :
               /\ IsLinkTo(last.line, start, end, LastUndo.linkText)
               /\ \/ /\ last.key = "Backspace"
                     /\ start < last.ch /\ last.ch <= end
                  \/ /\ last.key = "Delete"
                     /\ start <= last.ch /\ last.ch < end
         /\ DateNow - LastUndo.timestamp <= 30000
    /\ ~last.prevented =>
         /\ undoStack = last.undoStack
         /\ isAutoLinkDisabled = last.disabled
         /\ cursorLine = last.cursorLine
         /\ line = nativeKey([line |-> last.line, ch |-> last.ch,
                              setLine |-> FALSE], last.key).line
         /\ ch = nativeKey([line |-> last.line, ch |-> last.ch,
                            setLine |-> FALSE], last.key).ch
    /\ last.prevented <=> Len(undoStack) < last.undoLen

\* a Backspace inside the link, within the time limit, has undone the link
C16_Witness ==
  /\ last.op = "keydown"
  /\ last.prevented
  /\ Len(undoStack) = last.undoLen - 1
  /\ line = LastUndo.original

(***************************************************************************)
(* Undo right after an insertion, undo with nothing to undo, the cool-down *)
(* against the debounce delay, and insertions that follow an insertion.    *)
(***************************************************************************)
\* C17: Backspace or Delete pressed right after a link was created, with
\* the cursor where the insertion left it, undoes that link: the key is
\* intercepted, the line and the cursor from before the insertion are
\* restored and the record is popped, for completion inserts as well as for
\* accepted suggestions.
C17_KeyRightAfterInsertUndoes ==
  [][(last.pushed /\ last'.op = "keydown" /\ last'.key \in SpecialKeys) =>
       /\ last'.prevented
       /\ line' = last.line
       /\ ch' = last.ch
       /\ cursorLine' = last.cursorLine
       /\ Len(undoStack') = Len(undoStack) - 1]_vars

\* the operation left the ledger and the flag alone, and the text and the
\* cursor are what the editor itself makes of the key (nothing, for the
\* command)
LeftAlone ==
  /\ undoStack = last.undoStack
  /\ isAutoLinkDisabled = last.disabled
  /\ ~last.prevented
  /\ cursorLine = last.cursorLine
  /\ LET e0 == [line |-> last.line, ch |-> last.ch, setLine |-> FALSE]
         after == IF last.op = "keydown" THEN nativeKey(e0, last.key) ELSE e0
     IN line = after.line /\ ch = after.ch

\* the cursor is within the span of a link to the newest record's target
CursorInLink ==
  \E start \in 0..Len(last.line) : \E end \in start..Len(last.line) :
     /\ IsLinkTo(last.line, start, end, LastUndo.linkText)
     /\ start < last.ch
     /\ last.ch < end

\* C18: with an empty ledger the undo command and Backspace/Delete change
\* neither text nor cursor, do not set the suppression flag and do not
\* intercept the key; a Backspace/Delete pressed more than 30000 ms after
\* the newest record's timestamp leaves ledger, text, cursor and flag
\* unchanged and is not intercepted.
C18_NothingToUndoIsNoOp ==
  /\ (last.op \in {"undoCommand", "keydown"} /\ last.undoLen = 0) => LeftAlone
  /\ (/\ last.op = "keydown"
      /\ last.undoLen > 0
      /\ DateNow - LastUndo.timestamp > 30000) => LeftAlone

\* a key pressed within the newest record's link, on its line, 30001 ms
\* after the insertion
C18_Witness ==
  /\ last.op = "keydown"
  /\ last.undoLen > 0
  /\ DateNow - LastUndo.timestamp = 30001
  /\ last.cursorLine = LastUndo.line
  /\ CursorInLink
  /\ undoStack = last.undoStack

\* the undo command, and a key, with an empty ledger
C18_EmptyLedgerReached ==
  /\ last.op \in {"undoCommand", "keydown"}
  /\ last.undoLen = 0

\* C19: the evaluation that follows an undo, with no other change to the
\* text in between, runs with the suppression flag still set and links
\* nothing, for every debounce delay of 50..1000 ms against the cool-down
\* of 1000 ms.
C19_UndoneTextIsNotRelinked ==
  (Evaluated /\ last.origin = "undo") => (last.disabled /\ ~Pushed)

\* C20: the evaluation that follows an engine insertion, with no user input
\* in between, inserts no link and pushes no undo record.
C20_InsertionTriggersNoInsertion ==
  (Evaluated /\ last.origin = "engine") => (~Pushed /\ line = last.line)

(***************************************************************************)
(* The link-syntax detector on lines with links.                           *)
(***************************************************************************)
Scanned == last.op = "isInsideLink"

\* a `[[` at offset p of l that no `]]` closes before column c
OpenAt(l, p, c) ==
  /\ slice(l, p, p + 2) = Str_Open
  /\ p + 2 <= c
  /\ \A q \in (p + 2)..(c - 2) : slice(l, q, q + 2) # Str_Close

\* l holds, from offset start to offset end, a closed link: `[[`, a text
\* without square brackets, `]]`
ClosedLinkAt(l, start, end) ==
  /\ start + 4 < end
  /\ end <= Len(l)
  /\ slice(l, start, start + 2) = Str_Open
  /\ slice(l, end - 2, end) = Str_Close
  /\ \A i \in (start + 3)..(end - 2) : l[i] \notin {"[", "]"}

\* C21: isInsideLink is true at every column after a `[[` that no `]]`
\* closes before that column, and false at every column after a closed
\* link when no square bracket follows the link on the line.
C21_DetectsOpenAndClosedLinks ==
  Scanned =>
    /\ (\E p \in 0..Len(line) : OpenAt(line, p, ch)) => last.inside
    /\ (\E p \in 0..Len(line) : \E e \in p..ch :
           /\ ClosedLinkAt(line, p, e)
           /\ \A i \in (e + 1)..Len(line) : line[i] \notin {"[", "]"})
         => ~last.inside

\* link stands in l from offset start on
LinkAt(l, link, start) == slice(l, start, start + Len(link)) = link

\* C22: with a link as the engine writes it, `[[Target]]` or
\* `[[Target|Label]]`, anywhere in a line, isInsideLink is true at every
\* column c with linkStart < c < linkEnd, whatever stands before and after
\* the link.
C22_ProducedLinkIsDetected ==
  Scanned =>
    \A link \in ProducedLinks : \A start \in 0..Len(line) :
       (/\ LinkAt(line, link, start)
        /\ start < ch
        /\ ch < start + Len(link)) => last.inside

(***************************************************************************)
(* Folder scope.                                                           *)
(***************************************************************************)
\* the documents the index can offer
Indexed == {noteTitles[i].file : i \in DOMAIN noteTitles}
             \cup {aliases[i].file : i \in DOMAIN aliases}

\* C23: in semiAutonomous mode, at every evaluation the index holds only
\* documents of the folder of the active document, also after the user has
\* opened a document of another folder.
C23_IndexWithinActiveFolder ==
  (Evaluated /\ settings.mode = "semiAutonomous") =>
     \A f \in Indexed : f.folder = activeFile.folder

(***************************************************************************)
(* The candidate list of findMatches.                                      *)
(***************************************************************************)
Queried == last.op = "findMatches"

CurrentKey == indexKey(settings, activeFile.basename)

\* the title entries that match typed text t, in the order of the index
TitleHits(t) ==
  SelectSeq(noteTitles,
            LAMBDA ent : /\ ent.key # CurrentKey
                         /\ startsWith(ent.key, searchKeyOf(settings, t)))

\* alias entry i matches t by itself
AliasFits(t, i) ==
  /\ aliases[i].file.basename # activeFile.basename
  /\ startsWith(aliases[i].key, searchKeyOf(settings, t))

\* the alias entries that match t, without the documents a title or an
\* earlier alias has brought in, in the order of the index
AliasHits(t) ==
  LET keep(i) ==
        /\ AliasFits(t, i)
        /\ \A k \in DOMAIN TitleHits(t) : TitleHits(t)[k].file # aliases[i].file
        /\ \A j \in 1..(i - 1) :
              AliasFits(t, j) => aliases[j].file # aliases[i].file
      kept == {i \in DOMAIN aliases : keep(i)}
      nth[n \in 0..Len(aliases)] ==
        IF n = 0 THEN 0
        ELSE CHOOSE i \in kept : i > nth[n - 1] /\
                                 \A j \in kept : j > nth[n - 1] => i <= j
  IN [n \in 1..Cardinality(kept) |-> aliases[nth[n]]]

\* the full ordered match sequence for t: titles first, aliases after them
FullMatches(t) ==
  [k \in 1..(Len(TitleHits(t)) + Len(AliasHits(t))) |->
     IF k <= Len(TitleHits(t))
     THEN [title |-> TitleHits(t)[k].file.basename,
           file |-> TitleHits(t)[k].file, isAlias |-> FALSE]
     ELSE [title |-> AliasHits(t)[k - Len(TitleHits(t))].key,
           file |-> AliasHits(t)[k - Len(TitleHits(t))].file,
           isAlias |-> TRUE]]

\* C24: findMatches returns at most maxSuggestions candidates, every title
\* match before every alias match and each group in the order of the index:
\* exactly the first maxSuggestions elements of the full ordered match
\* sequence.
C24_FirstMaxSuggestionsInOrder ==
  Queried =>
    \A c \in Range(last.calls) :
       /\ Len(c.result) <= settings.maxSuggestions
       /\ \A i, j \in DOMAIN c.result :
             (i < j /\ c.result[i].isAlias) => c.result[j].isAlias
       /\ c.result = SubSeq(FullMatches(c.typed), 1,
                            Min(settings.maxSuggestions,
                                Len(FullMatches(c.typed))))

\* a query with more matches than maxSuggestions whose answer holds a title
\* match and an alias match
C24_Witness ==
  /\ Queried
  /\ \E c \in Range(last.calls) :
        /\ Len(c.result) = settings.maxSuggestions
        /\ Len(FullMatches(c.typed)) > settings.maxSuggestions
        /\ ~c.result[1].isAlias
        /\ c.result[Len(c.result)].isAlias

\* C25: no candidate list of findMatches holds the same document twice, and
\* the current document is never a candidate, neither through its title nor
\* through one of its aliases.
C25_CandidatesDistinctNotCurrent ==
  Queried =>
    \A c \in Range(last.calls) :
       /\ \A i, j \in DOMAIN c.result :
             i # j => c.result[i].file # c.result[j].file
       /\ \A i \in DOMAIN c.result : c.result[i].file # activeFile

\* a query for which a document matches by title and by alias, a document
\* matches by two aliases, and the current document matches by an alias
C25_Witness ==
  /\ Queried
  /\ \E c \in Range(last.calls) :
        /\ \E k \in DOMAIN TitleHits(c.typed) : \E i \in DOMAIN aliases :
              AliasFits(c.typed, i)
                /\ aliases[i].file = TitleHits(c.typed)[k].file
        /\ \E i, j \in DOMAIN aliases :
              /\ i # j
              /\ AliasFits(c.typed, i)
              /\ AliasFits(c.typed, j)
              /\ aliases[i].file = aliases[j].file
        /\ \E i \in DOMAIN aliases :
              /\ aliases[i].file = activeFile
              /\ startsWith(aliases[i].key, searchKeyOf(settings, c.typed))
        /\ Len(c.result) >= 3

(***************************************************************************)
(* Suggestion sessions.                                                    *)
(***************************************************************************)
\* the evaluation recorded in last got a non-empty candidate list for the
\* typed fragment
Candidates == IF last.calls = <<>> THEN <<>> ELSE last.calls[1].result

\* the evaluation left text, cursor and ledger as they were
KeptDocument ==
  /\ line = last.line
  /\ ch = last.ch
  /\ cursorLine = last.cursorLine
  /\ undoStack = last.undoStack

\* exactly one session is open and shows list
SessionShows(list) ==
  /\ popup.open
  /\ popup.matches = list
  /\ containers = 1

\* C26: in suggestions mode handleEditorChange never changes text, cursor
\* or ledger; every evaluation with a non-empty candidate list, even of
\* length 1, ends with exactly one session open that shows the list; and
\* text is changed by the engine only through an accept of the session.
C26_SuggestionsNeverAutoApply ==
  settings.mode = "suggestions" =>
    /\ Evaluated => KeptDocument
    /\ (Evaluated /\ Candidates # <<>>) => SessionShows(Candidates)
    /\ Pushed => last.op = "acceptSuggestion"

\* C26, amended: the same, for the evaluations whose popup could be mounted.
C26_SuggestionsNeverAutoApplyIfMounted ==
  settings.mode = "suggestions" =>
    /\ Evaluated => KeptDocument
    /\ (Evaluated /\ Candidates # <<>> /\ ~last.mountFailed)
         => SessionShows(Candidates)
    /\ Pushed => last.op = "acceptSuggestion"

\* an evaluation in suggestions mode with a single candidate, after a
\* delimiter, that opened the session
C26_Witness ==
  /\ settings.mode = "suggestions"
  /\ Evaluated
  /\ Len(Candidates) = 1
  /\ isWordCompleting(last.line, last.ch)
  /\ SessionShows(Candidates)

\* the evaluation recorded in last reached the mode dispatch: it ran past
\* the early returns and inserted no link
Dispatched ==
  /\ Evaluated
  /\ ~last.disabled
  /\ ~last.inside
  /\ last.calls # <<>>
  /\ ~Pushed

\* C27: in autonomous and semiAutonomous mode no evaluation that reaches the
\* mode dispatch leaves a session open, however many candidates match.
C27_NoSessionInAutoModes ==
  (settings.mode \in AutoModes /\ Dispatched) =>
     (~popup.open /\ containers = 0)

\* an evaluation in such a mode with two or more candidates, begun with a
\* session open
C27_Witness ==
  /\ settings.mode \in AutoModes
  /\ Dispatched
  /\ Len(Candidates) > 1
  /\ last.popup.open
  /\ ~popup.open

\* C28: in an open session with n >= 1 candidates ArrowDown makes the
\* selected index (selected + 1) mod n and ArrowUp (selected - 1) mod n,
\* wrapping in both directions, and after any sequence of arrow, hover,
\* click and digit-key events 0 <= selected < n.
C28_SelectionCyclesWithinList ==
  /\ popup.open =>
       /\ Len(popup.matches) >= 1
       /\ 0 <= popup.selected
       /\ popup.selected < Len(popup.matches)
  /\ last.op = "popupArrow" =>
       LET n == Len(last.popup.matches)
           was == last.popup.selected
       IN /\ popup.open
          /\ popup.matches = last.popup.matches
          /\ last.key = "ArrowDown" =>
               popup.selected = (IF was = n - 1 THEN 0 ELSE was + 1)
          /\ last.key = "ArrowUp" =>
               popup.selected = (IF was = 0 THEN n - 1 ELSE was - 1)

\* ArrowUp on the first of three candidates has selected the last one
C28_Witness ==
  /\ last.op = "popupArrow"
  /\ last.key = "ArrowUp"
  /\ Len(popup.matches) = 3
  /\ last.popup.selected = 0
  /\ popup.selected = 2

\* ArrowDown on the last of three candidates has selected the first one
C28_WrapsDownward ==
  /\ last.op = "popupArrow"
  /\ last.key = "ArrowDown"
  /\ Len(popup.matches) = 3
  /\ last.popup.selected = 2
  /\ popup.selected = 0

\* text, ledger and flag are as before the event recorded in last, and no
\* session and no container is left of the session that was open
ClosedUnchanged ==
  /\ last.popup.open
  /\ ~popup.open
  /\ containers = 0
  /\ line = last.line
  /\ cursorLine = last.cursorLine
  /\ undoStack = last.undoStack
  /\ isAutoLinkDisabled = last.disabled

\* C29: Escape and a click outside the popup close the open session
\* without mutation: afterwards there is no session, and text, cursor, undo
\* ledger and suppression flag are exactly as before the event.
C29_CloseWithoutMutation ==
  last.op \in {"closePopup", "outsideClick"} =>
    (ClosedUnchanged /\ ch = last.ch)

\* C29, amended: the same, but after a click that fell into the text the
\* cursor is where the editor put it.
C29_CloseWithoutPluginMutation ==
  last.op \in {"closePopup", "outsideClick"} =>
    (ClosedUnchanged /\ ch = (IF last.at = -1 THEN last.ch ELSE last.at))

\* a click into the text, away from the cursor, closed a session with
\* several candidates
C29_Witness ==
  /\ last.op = "outsideClick"
  /\ last.at # -1
  /\ last.at # last.ch
  /\ last.popup.open
  /\ Len(last.popup.matches) > 1
  /\ ~popup.open

\* Escape closed a session
C29_EscapeReached ==
  /\ last.op = "closePopup"
  /\ last.popup.open
  /\ ~popup.open

\* C30: when mounting the popup fails, the failure is caught and the
\* container made for it is removed: afterwards no session is registered
\* and no container remains, text, cursor and ledger are unchanged, and a
\* later evaluation with candidates, whose popup mounts, shows them.
C30_MountFailureLeavesNothing ==
  /\ (Evaluated /\ last.mountFailed) =>
        /\ ~popup.open
        /\ containers = 0
        /\ KeptDocument
        /\ ~Pushed
  /\ (/\ Evaluated
      /\ last.failedBefore
      /\ ~last.mountFailed
      /\ settings.mode = "suggestions"
      /\ Candidates # <<>>) => SessionShows(Candidates)

\* a failed mount in an evaluation that began with a session open
C30_Witness ==
  /\ Evaluated
  /\ last.mountFailed
  /\ last.popup.open
  /\ ~popup.open
  /\ containers = 0

\* a session is shown by an evaluation after a failed mount
C30_LaterSessionReached ==
  /\ Evaluated
  /\ last.failedBefore
  /\ ~last.mountFailed
  /\ SessionShows(Candidates)

(***************************************************************************)
(* No-op evaluations.                                                      *)
(***************************************************************************)
\* the evaluation recorded in last ran with the flag clear
Entered == Evaluated /\ ~last.disabled

\* the fragment before the cursor of the evaluated state, untrimmed
Fragment == fragmentMatch(slice(last.line, 0, last.ch))

NoFragment == Entered /\ ~last.inside /\ Fragment = <<>>

ShortFragment ==
  /\ Entered
  /\ ~last.inside
  /\ Fragment # <<>>
  /\ Len(TypedFragment) < settings.minWordLength

ZeroCandidates ==
  /\ Entered
  /\ ~last.inside
  /\ Fragment # <<>>
  /\ Len(TypedFragment) >= settings.minWordLength
  /\ Candidates = <<>>

InsideLink == Entered /\ last.inside

\* nothing is left of sessions and cache, and the document is as it was
NothingLeft ==
  /\ ~popup.open
  /\ pendingMatches = {}
  /\ KeptDocument

\* C31: an evaluation that hits a no-op condition (no fragment before the
\* cursor, fragment shorter than minWordLength, cursor inside a link, zero
\* candidates) leaves no session open, the pending-matches cache empty and
\* text, cursor and ledger unchanged.
C31_NoOpLeavesNothing ==
  (NoFragment \/ ShortFragment \/ InsideLink \/ ZeroCandidates) => NothingLeft

\* the part of C31 the code keeps: no fragment and short fragment
C31_FragmentNoOps == (NoFragment \/ ShortFragment) => NothingLeft

\* the part of C31 the code keeps: the document is never changed
C31_NoOpKeepsDocument ==
  (NoFragment \/ ShortFragment \/ InsideLink \/ ZeroCandidates) => KeptDocument

\* zero candidates close the session
C31_ZeroCandidatesCloses == ZeroCandidates => ~popup.open

\* an evaluation inside a link leaves the session of an earlier one open
C31_SessionSurvivesInsideLink == InsideLink /\ popup.open

\* an evaluation with zero candidates leaves an entry in the cache
C31_CacheKeptOnZeroCandidates == ZeroCandidates /\ pendingMatches # {}

(***************************************************************************)
(* Debouncing.                                                             *)
(***************************************************************************)
\* at most one evaluation is pending
OnePending ==
  Cardinality({i \in DOMAIN timers : timers[i].name = "debounce"}) <= 1

\* an editor-change event has happened
Changed == last.change # "none" \/ last.origin # "none"

\* once debounceMs have passed since the latest change event, an evaluation
\* has run after it
EvaluatedAfterBurst ==
  (Changed /\ last.gap >= settings.debounceMs /\ ~evalPending)
     => last.evalSince

\* a key typed less than debounceMs after the change event before it finds
\* that no evaluation has run between the two
NoEvaluationInsideBurst ==
  (last'.op = "type" /\ last.gap < settings.debounceMs) => ~last.evalSince

\* the evaluation reads the editor when it runs: its first query is the
\* fragment of the line and cursor of that moment
ReadsAtExecution ==
  (Evaluated /\ last.calls # <<>>) => last.calls[1].typed = TypedFragment

\* C32: change handling is debounced: every change event cancels the
\* pending evaluation and schedules a fresh one, so a burst of events with
\* gaps below debounceMs causes exactly one evaluation, after the last event
\* of the burst, reading the editor at execution time; at most one
\* evaluation is pending at any moment.
C32_OneEvaluationPerBurst ==
  /\ [](OnePending /\ EvaluatedAfterBurst /\ ReadsAtExecution)
  /\ [][NoEvaluationInsideBurst]_vars

\* the part of C32 the code keeps
C32_OnePendingAndEvaluated ==
  OnePending /\ EvaluatedAfterBurst /\ ReadsAtExecution

(***************************************************************************)
(* Ledger records and text changes.                                        *)
(***************************************************************************)
\* the newest record of the ledger
TopRecord == undoStack[Len(undoStack)]

\* C33: every record of the ledger was pushed by an engine insertion that
\* changed the recorded line, and the newest record belongs to the engine's
\* latest text mutation; an operation that leaves the text unchanged pushes
\* no record, in any mode.
C33_RecordMeansTextChanged ==
  Pushed =>
    /\ line # last.line
    /\ undoStack # <<>>
    /\ TopRecord.original = last.line
    /\ TopRecord.line = last.cursorLine

\* outside custom mode every pushed record comes with a changed line
C33_ChangedOutsideCustom ==
  (Pushed /\ settings.mode # "custom") => line # last.line

\* the pushing operation records the line it found, in every mode
C33_RecordsTheLineFound ==
  Pushed =>
    /\ undoStack # <<>>
    /\ TopRecord.original = last.line
    /\ TopRecord.line = last.cursorLine

\* a record was pushed and the text is as it was
C33_RecordWithoutChange == Pushed /\ line = last.line /\ undoStack # <<>>

(***************************************************************************)
(* The suppression flag.                                                   *)
(***************************************************************************)
\* C34: while the suppression flag is set handleEditorChange changes
\* nothing: text, cursor, ledger, pending-matches cache and any open
\* session are as before the call, whatever the line, mode and index.
C34_FlagSetEvaluationChangesNothing ==
  (Evaluated /\ last.disabled) =>
     /\ KeptDocument
     /\ pendingMatches = last.pendingMatches
     /\ popup = last.popup
     /\ containers = last.containers

\* an evaluation ran with the flag set on a line whose fragment has
\* candidates
C34_Witness ==
  /\ Evaluated
  /\ last.disabled
  /\ ~last.inside
  /\ Len(TypedFragment) >= settings.minWordLength
  /\ findMatches(TypedFragment, activeFile.basename) # <<>>

\* an evaluation ran with the flag set while a session was open
C34_SessionKeptReached == Evaluated /\ last.disabled /\ popup.open

\* an evaluation ran with the flag set after a completed word
C34_CompletedWordReached ==
  /\ Evaluated
  /\ last.disabled
  /\ settings.mode \in AutoModes
  /\ isWordCompleting(last.line, last.ch)
  /\ Len(findMatches(CompletedWord, activeFile.basename)) = 1

\* the cool-down timers that are pending
CoolDownTimers == {i \in DOMAIN timers : timers[i].name = "disable"}

\* the flag is set exactly while one cool-down timer is pending
FlagIffTimer ==
  /\ isAutoLinkDisabled <=> CoolDownTimers # {}
  /\ Cardinality(CoolDownTimers) <= 1
  /\ \A i \in CoolDownTimers : timers[i].left \in 0..CoolDown

\* an undo leaves the flag set and one timer with the whole cool-down to go
UndoRestartsTimer ==
  last'.change = "undo" =>
     /\ isAutoLinkDisabled'
     /\ \E i \in DOMAIN timers' :
           /\ timers'[i].name = "disable"
           /\ timers'[i].left = CoolDown
           /\ \A j \in DOMAIN timers' : timers'[j].name = "disable" => j = i

\* C35: isAutoLinkDisabled is true exactly while a cool-down timer is
\* pending; an undo during a cool-down cancels the pending timer and starts
\* a new one, so at most one timer is pending; and the flag always returns
\* to false, 1000 ms after the last undo.
C35_FlagFollowsCoolDownTimer ==
  /\ []FlagIffTimer
  /\ [][UndoRestartsTimer]_vars
  /\ [][(isAutoLinkDisabled /\ ~isAutoLinkDisabled') => last'.op = "reenable"]_vars
  /\ (isAutoLinkDisabled ~> ~isAutoLinkDisabled)

\* an undo was performed while the cool-down of an earlier undo was running
C35_Witness ==
  /\ last.change = "undo"
  /\ last.disabled
  /\ isAutoLinkDisabled
  /\ \E i \in CoolDownTimers : timers[i].left = CoolDown

\* the cool-down of the latest of several undos has ended
C35_FlagClearedReached ==
  /\ last.op = "reenable"
  /\ ~isAutoLinkDisabled
  /\ CoolDownTimers = {}

(***************************************************************************)
(* The pending-matches cache.                                              *)
(***************************************************************************)
\* the cache holds an ambiguous list for the completed word
WaitingIn(pm) ==
  \E p \in pm : p.key = CompletedWord /\ Len(p.matches) > 1

\* C36: the pending-matches cache never influences a decision: on two
\* states that differ only in the cache handleEditorChange gives the same
\* text, cursor, ledger and session; the completion branch inserts iff the
\* completed word has exactly one candidate.
C36_CacheNeverDecides ==
  /\ Evaluated => last.same
  /\ (/\ Ran
      /\ ~last.disabled
      /\ settings.mode \in AutoModes
      /\ isWordCompleting(last.line, last.ch)
      /\ Len(TypedFragment) >= settings.minWordLength
      /\ CompletedWord # <<>>)
       => (Pushed <=>
             Len(findMatches(CompletedWord, activeFile.basename)) = 1)

\* a completed word was linked by a run whose cache had no ambiguous list
\* for it, and compared with a run whose cache had one
C36_Witness ==
  /\ Evaluated
  /\ Pushed
  /\ settings.mode \in AutoModes
  /\ ~WaitingIn(last.pendingMatches)
  /\ WaitingIn(last.twin)

\* both runs end with a session open
C36_SessionReached ==
  /\ Evaluated
  /\ popup.open
  /\ last.twin # {}
  /\ last.twin # last.pendingMatches

(***************************************************************************)
(* One session at a time.                                                  *)
(***************************************************************************)
\* the operations that end with closePopup
Closers == {"acceptSuggestion", "closePopup", "outsideClick", "unload"}

\* C37: at most one session and at most one popup container exist at any
\* time: showSuggestionPopup destroys the session before it creates one,
\* and after closePopup (accept, Escape, outside click, supersession or
\* unload) none exists.
C37_AtMostOneSession ==
  /\ containers <= 1
  /\ popup.open <=> containers = 1
  /\ last.op \in Closers => (~popup.open /\ containers = 0)
  /\ (Evaluated /\ last.popup.open /\ ~last.disabled /\ ~last.inside)
        => (popup.open => popup.selected = 0 /\ popup.matches = Candidates)

\* a session was superseded by the session of the next evaluation
C37_Witness ==
  /\ Evaluated
  /\ last.popup.open
  /\ last.containers = 1
  /\ popup.open
  /\ containers = 1

\* unloading closed an open session
C37_UnloadReached ==
  /\ last.op = "unload"
  /\ last.popup.open
  /\ ~popup.open
  /\ containers = 0

\* an evaluation that was pending at unload opened a session afterwards
C37_SessionAfterUnloadReached == last.unloaded /\ popup.open

(***************************************************************************)
(* Committing a session.                                                   *)
(***************************************************************************)
Accepted == last.op = "acceptSuggestion"

\* the candidates the accept recorded in last may have passed on: the
\* selected one for a key, any of the list for a digit or a click
Acceptable ==
  IF last.key \in AcceptKeys
  THEN {last.popup.matches[last.popup.selected + 1]}
  ELSE Range(last.popup.matches)

\* the line is the line before with one occurrence of typed replaced by
\* the link to m
SubstitutedBy(m) ==
  \E start \in 0..(Len(last.line) - Len(last.popup.typed)) :
     /\ slice(last.line, start, start + Len(last.popup.typed))
          = last.popup.typed
     /\ line = slice(last.line, 0, start) \o linkOf(m)
                 \o sliceFrom(last.line, start + Len(last.popup.typed))

\* the accept came from an open session, pushed one record and closed it
CommittedOnce ==
  /\ last.popup.open
  /\ Len(undoStack) = Min(MaxUndo, last.undoLen + 1)
  /\ TopRecord.original = last.line
  /\ TopRecord.linkText \in {m.file.basename : m \in Acceptable}
  /\ ~popup.open
  /\ containers = 0

\* C38: an open session commits at most once: an accept (Enter when
\* allowed, Tab, Ctrl/Cmd+Space, a digit within the list, a click on a
\* candidate) calls onAccept once with the selected candidate, which pushes
\* one undo record, performs one substitution and closes the session; a
\* closed session causes no insertion.
C38_SessionCommitsOnce ==
  Accepted => (CommittedOnce /\ \E m \in Acceptable : SubstitutedBy(m))

\* the part of C38 the code keeps: one record, session closed
C38_OneRecordAndClosed == Accepted => CommittedOnce

\* the substitution is made whenever the typed text still stands before
\* the cursor
C38_SubstitutesWhenTypedBeforeCursor ==
  (Accepted /\ includes(slice(last.line, 0, last.ch), last.popup.typed))
     => \E m \in Acceptable : SubstitutedBy(m)

\* Enter is not an accept key of a session that does not allow it
C38_EnterOnlyWhenAllowed ==
  (Accepted /\ last.key = "Enter") => last.popup.allowEnterAccept

\* an accept pushed a record and left the line as it was
C38_AcceptWithoutSubstitution == Accepted /\ Pushed /\ line = last.line

(***************************************************************************)
(* Undo is last-in-first-out.                                              *)
(***************************************************************************)
\* the line, cursor and line number found by the latest insertion that was
\* not yet undone when the action recorded in last began
LatestInsertion == last.earlier[Len(last.earlier)]

\* an undo brought back what the latest insertion not yet undone had found
RestoresLatestInsertion ==
  Undone =>
    /\ last.earlier # <<>>
    /\ line = LatestInsertion.line
    /\ ch = LatestInsertion.ch
    /\ cursorLine = LatestInsertion.cursorLine
    /\ last.history = SubSeq(last.earlier, 1, Len(last.earlier) - 1)

\* the ledger holds one record for each insertion not yet undone
LedgerMatchesInsertions == Len(undoStack) = Len(last.history)

\* the undo command with nothing left to undo leaves everything as it was
UndoOfNothingChangesNothing ==
  (last.op = "undoCommand" /\ last.earlier = <<>>) =>
    /\ ~Undone
    /\ line = last.line
    /\ ch = last.ch
    /\ cursorLine = last.cursorLine
    /\ undoStack = <<>>
    /\ isAutoLinkDisabled = last.disabled
    /\ popup = last.popup

\* C39: undo is last-in-first-out: after k engine insertions (k at most the
\* size of the ledger), k undos in a row restore in turn the line text and
\* the cursor from before the k-th, the (k-1)-th, ..., the first insertion,
\* and end with an empty ledger; one more undo changes nothing.  Stated on
\* every undo: it restores what the latest insertion not yet undone had
\* found and leaves the ledger with one record per insertion still to undo.
C39_UndoIsLastInFirstOut ==
  /\ RestoresLatestInsertion
  /\ LedgerMatchesInsertions
  /\ UndoOfNothingChangesNothing

\* two insertions, on line 0 and then on line 1, were both undone: the
\* second undo, run while the flag set by the first was still up, restored
\* line 0 and emptied the ledger
C39_Witness ==
  /\ Undone
  /\ last.op = "undoCommand"
  /\ last.disabled
  /\ last.cursorLine = 1
  /\ Len(last.earlier) = 1
  /\ undoStack = <<>>
  /\ cursorLine = 0
  /\ line = Str_Note \o <<" ">>
  /\ otherLine = Str_Note \o <<" ">>

\* the undo after the last of them found nothing to undo
C39_UndoOfNothingReached ==
  /\ last.op = "undoCommand"
  /\ last.earlier = <<>>
  /\ line = Str_Note \o <<" ">>
  /\ otherLine = Str_Note \o <<" ">>

\* the first of two undos in a row, with two insertions to undo
C39_FirstOfTwoUndosReached ==
  /\ Undone
  /\ Len(last.earlier) = 2
  /\ last.earlier[1].cursorLine # last.earlier[2].cursorLine

\* the ledger was full when the undo began
C39_FullLedgerUndoReached == Undone /\ Len(last.earlier) = MaxUndo

====
